---- MODULE Spec2Model ----
(***************************************************************************)
(* Model of the Student-app authentication front-end: the sanitizers, the  *)
(* secure session store (utils/storage.ts), the auth API client            *)
(* (api/auth.ts), app-start hydration (App.tsx), the navigator             *)
(* (navigation/AppNavigator.tsx) and the Login, Register and DevPlayground *)
(* screens.                                                                *)
(*                                                                         *)
(* Strings are sequences of characters.  Characters are one-element names; *)
(* the classes that the code distinguishes (control characters, white      *)
(* space, digits, upper case) are sets of characters.  JavaScript values   *)
(* that are not statically typed as strings are tagged records.            *)
(***************************************************************************)
EXTENDS Integers, Sequences, FiniteSets, TLC

----------------------------------------------------------------------------
(* Characters and strings *)

\* U+0001, U+0009 (tab), U+007F: the characters matched by /[\u0000-\u001F\u007F]/
ControlChars == {"SOH", "TAB", "DEL"}

\* the characters String.prototype.trim removes that occur in the model:
\* space, tab (also a control character) and U+00A0
WhiteSpace == {" ", "TAB", "NBSP"}

Digits == {"7"}

Chars == {"a", "b", "A", "7", "+", "@", ".", " ", "NBSP"} \cup ControlChars

StringsOver(alphabet, n) == UNION {[1..k -> alphabet] : k \in 0..n}

HasControlChar(s) == \E i \in 1..Len(s) : s[i] \in ControlChars

\* the letters, in the order of the alphabet
LowerLetters ==
  <<"a", "b", "c", "d", "e", "f", "g", "h", "i", "j", "k", "l", "m", "n", "o", "p",
    "q", "r", "s", "t", "u", "v", "w", "x", "y", "z">>
UpperLetters ==
  <<"A", "B", "C", "D", "E", "F", "G", "H", "I", "J", "K", "L", "M", "N", "O", "P",
    "Q", "R", "S", "T", "U", "V", "W", "X", "Y", "Z">>
IsLower(c) == \E i \in 1..Len(LowerLetters) : LowerLetters[i] = c
IsUpper(c) == \E i \in 1..Len(UpperLetters) : UpperLetters[i] = c
LetterIndex(c, letters) == CHOOSE i \in 1..Len(letters) : letters[i] = c

\* String.prototype.toLowerCase
LowerOf(c) ==
  CASE IsUpper(c) -> LowerLetters[LetterIndex(c, UpperLetters)]
    [] c = "COLLEGE" -> "college"
    [] c = "STUDENT" -> "student"
    [] OTHER -> c

\* String.prototype.toUpperCase of one character
UpperOf(c) == IF IsLower(c) THEN UpperLetters[LetterIndex(c, LowerLetters)] ELSE c
toLowerCase(s) == [i \in 1..Len(s) |-> LowerOf(s[i])]

RECURSIVE trimStart(_)
trimStart(s) ==
  IF s = <<>> THEN s
  ELSE IF Head(s) \in WhiteSpace THEN trimStart(Tail(s)) ELSE s

RECURSIVE trimEnd(_)
trimEnd(s) ==
  IF s = <<>> THEN s
  ELSE IF s[Len(s)] \in WhiteSpace THEN trimEnd(SubSeq(s, 1, Len(s) - 1)) ELSE s

\* String.prototype.trim
trim(s) == trimEnd(trimStart(s))

\* value.replace(/[\u0000-\u001F\u007F]/g, '')
IsNotControl(c) == c \notin ControlChars
replaceControlChars(s) == SelectSeq(s, IsNotControl)

\* sanitize without the removal of control characters
sanitize_trimOnly(value) == trim(value)

\* storage.ts sanitize
sanitize(value) == trim(replaceControlChars(value))

\* sanitizeString without the trim
sanitizeString_noTrim(value) == replaceControlChars(value)

\* auth.ts sanitizeString
sanitizeString(value) == trim(replaceControlChars(value))

\* sanitizeMessage without the removal of control characters
sanitizeMessage_trimOnly(message) == trim(message)

\* errorHandler.ts sanitizeMessage
sanitizeMessage(message) == trim(replaceControlChars(message))

----------------------------------------------------------------------------
(* JavaScript values: tagged records *)

Undefined == [t |-> "undefined"]
Null == [t |-> "null"]
Str(s) == [t |-> "string", v |-> s]
Num(n) == [t |-> "number", v |-> n]
Obj(f) == [t |-> "object", v |-> f]
Arr(q) == [t |-> "array", v |-> q]

IsString(x) == x.t = "string"
IsObject(x) == x.t = "object"

\* property access record.key on a JavaScript object
Prop(x, key) == IF IsObject(x) /\ key \in DOMAIN x.v THEN x.v[key] ELSE Undefined

\* JavaScript truthiness
Truthy(x) ==
  CASE x.t = "undefined" -> FALSE
    [] x.t = "null" -> FALSE
    [] x.t = "string" -> x.v # <<>>
    [] x.t = "number" -> x.v # 0
    [] x.t = "boolean" -> x.v
    [] OTHER -> TRUE

\* String(x) for the values that can occur as a stored token or username
DigitOf(n) == IF n = 7 THEN "7" ELSE "a"
ToJSString(x) ==
  CASE x.t = "string" -> x.v
    [] x.t = "number" -> <<DigitOf(x.v)>>
    [] OTHER -> <<"a">>

\* JSON.stringify of an object: a key whose value is undefined is omitted,
\* nested objects likewise; the text is represented by the value it denotes
RECURSIVE JSONValue(_)
JSONValue(x) ==
  IF IsObject(x)
  THEN Obj([k \in {j \in DOMAIN x.v : x.v[j] # Undefined} |-> JSONValue(x.v[k])])
  ELSE x

JSONStringify(x) == [t |-> "json", v |-> JSONValue(x)]

\* the raw texts a keychain entry can hold
EmptyText == [t |-> "empty"]
NotJSON == [t |-> "garbage"]

\* JSON.parse: ok |-> FALSE stands for the SyntaxError it throws
JSONParse(raw) ==
  IF raw.t = "json" THEN [ok |-> TRUE, v |-> raw.v] ELSE [ok |-> FALSE, v |-> Undefined]

\* every string value nested in a JavaScript value is free of control characters
RECURSIVE StringsClean(_)
StringsClean(x) ==
  CASE x.t = "string" -> ~HasControlChar(x.v)
    [] x.t = "object" -> \A k \in DOMAIN x.v : StringsClean(x.v[k])
    [] OTHER -> TRUE

----------------------------------------------------------------------------
(* utils/storage.ts: the secure session store *)

\* a word the code only compares as a whole is a one-element string
StudentRole == <<"student">>
CollegeRole == <<"college">>
Roles == {StudentRole, CollegeRole}

\* Keychain.getGenericPassword resolves false when nothing is stored
NoCredentials == [t |-> "none"]

\* session?.token etc. on a session that may be null
NoSession == Null

\* user: session.user ?? undefined
NullishToUndefined(x) == IF x = Null THEN Undefined ELSE x

\* serializeSession with the username stored as passed
serializeSession_rawUsername(session) ==
  JSONStringify(Obj([token |-> Str(sanitize(session.token)),
                     role |-> Str(session.role),
                     username |-> Str(session.username),
                     user |-> NullishToUndefined(session.user)]))

serializeSession(session) ==
  JSONStringify(Obj([token |-> Str(sanitize(session.token)),
                     role |-> Str(session.role),
                     username |-> Str(sanitize(session.username)),
                     user |-> NullishToUndefined(session.user)]))

\* outcomes of the three native keychain calls
SetOutcomes == {"stored", "rejected", "throws"}
GetOutcomes == {"ok", "throws"}
ResetOutcomes == {"ok", "throws"}

EmptyTokenMessage == "Unable to store empty session token."
PersistFailedMessage == "Failed to persist session. Please retry."

\* saveAuthSession: the keychain after the call and the error thrown, if any
saveAuthSession(kc, session, setOutcome) ==
  IF sanitize(session.token) = <<>>
  THEN [threw |-> TRUE, message |-> EmptyTokenMessage, keychain |-> kc]
  ELSE IF setOutcome = "stored"
       THEN [threw |-> FALSE, message |-> "", keychain |-> serializeSession(session)]
       ELSE [threw |-> TRUE, message |-> PersistFailedMessage, keychain |-> kc]

\* the stored role ignored
storedRole_alwaysStudent(x) == StudentRole

\* parsed.role === 'student' || parsed.role === 'college' ? parsed.role : 'student'
storedRole(x) == IF IsString(x) /\ x.v \in Roles THEN x.v ELSE StudentRole

\* getAuthSession: never throws; NoSession stands for null
getAuthSession(kc, getOutcome) ==
  IF getOutcome = "throws" THEN NoSession
  ELSE IF kc = NoCredentials THEN NoSession
  ELSE IF kc = EmptyText THEN NoSession
  ELSE LET parsed == JSONParse(kc) IN
       IF ~parsed.ok THEN NoSession
       ELSE IF ~Truthy(Prop(parsed.v, "token")) THEN NoSession
       ELSE [token |-> sanitize(ToJSString(Prop(parsed.v, "token"))),
             role |-> storedRole(Prop(parsed.v, "role")),
             username |-> IF Truthy(Prop(parsed.v, "username"))
                          THEN sanitize(ToJSString(Prop(parsed.v, "username")))
                          ELSE <<>>,
             user |-> Prop(parsed.v, "user")]

\* clearAuthSession that overwrites the entry with a session without token
clearAuthSession_writesEmptySession(kc, resetOutcome) ==
  IF resetOutcome = "ok"
  THEN JSONStringify(Obj([token |-> Str(<<>>), role |-> Str(StudentRole)]))
  ELSE kc

\* clearAuthSession: a failure of Keychain.resetGenericPassword is swallowed
clearAuthSession(kc, resetOutcome) ==
  IF resetOutcome = "ok" THEN NoCredentials ELSE kc

\* saveAuthToken: existing?.role ?? 'student', existing?.username ?? '', existing?.user
saveAuthToken(kc, token, getOutcome, setOutcome) ==
  LET existing == getAuthSession(kc, getOutcome) IN
  saveAuthSession(kc,
                  [token |-> token,
                   role |-> IF existing = NoSession THEN StudentRole ELSE existing.role,
                   username |-> IF existing = NoSession THEN <<>> ELSE existing.username,
                   user |-> IF existing = NoSession THEN Undefined ELSE existing.user],
                  setOutcome)

\* getAuthToken: session?.token ?? null
getAuthToken(kc, getOutcome) ==
  LET session == getAuthSession(kc, getOutcome) IN
  IF session = NoSession THEN Null ELSE Str(session.token)

\* clearAuthToken
clearAuthToken(kc, resetOutcome) == clearAuthSession(kc, resetOutcome)

----------------------------------------------------------------------------
(* api/auth.ts: the auth API client, pure parts *)

DEFAULT_ERROR_MESSAGE == "Unable to complete the request. Please try again later."
LOGIN_VALIDATION_MESSAGE == "Invalid login data provided."
REGISTER_VALIDATION_MESSAGE == "Invalid registration data provided."

FALLBACK_STATE_NAMES ==
  <<<<"a", "n", "d", "h", "r", "a", " ", "p", "r", "a", "d", "e", "s", "h">>,
    <<"a", "r", "u", "n", "a", "c", "h", "a", "l", " ", "p", "r", "a", "d", "e", "s",
      "h">>,
    <<"a", "s", "s", "a", "m">>,
    <<"b", "i", "h", "a", "r">>,
    <<"c", "h", "h", "a", "t", "t", "i", "s", "g", "a", "r", "h">>,
    <<"g", "o", "a">>,
    <<"g", "u", "j", "a", "r", "a", "t">>,
    <<"h", "a", "r", "y", "a", "n", "a">>,
    <<"h", "i", "m", "a", "c", "h", "a", "l", " ", "p", "r", "a", "d", "e", "s", "h">>,
    <<"j", "h", "a", "r", "k", "h", "a", "n", "d">>,
    <<"k", "a", "r", "n", "a", "t", "a", "k", "a">>,
    <<"k", "e", "r", "a", "l", "a">>,
    <<"m", "a", "d", "h", "y", "a", " ", "p", "r", "a", "d", "e", "s", "h">>,
    <<"m", "a", "h", "a", "r", "a", "s", "h", "t", "r", "a">>,
    <<"m", "a", "n", "i", "p", "u", "r">>,
    <<"m", "e", "g", "h", "a", "l", "a", "y", "a">>,
    <<"m", "i", "z", "o", "r", "a", "m">>,
    <<"n", "a", "g", "a", "l", "a", "n", "d">>,
    <<"o", "d", "i", "s", "h", "a">>,
    <<"p", "u", "n", "j", "a", "b">>,
    <<"r", "a", "j", "a", "s", "t", "h", "a", "n">>,
    <<"s", "i", "k", "k", "i", "m">>,
    <<"t", "a", "m", "i", "l", " ", "n", "a", "d", "u">>,
    <<"t", "e", "l", "a", "n", "g", "a", "n", "a">>,
    <<"t", "r", "i", "p", "u", "r", "a">>,
    <<"u", "t", "t", "a", "r", " ", "p", "r", "a", "d", "e", "s", "h">>,
    <<"u", "t", "t", "a", "r", "a", "k", "h", "a", "n", "d">>,
    <<"w", "e", "s", "t", " ", "b", "e", "n", "g", "a", "l">>,
    <<"d", "e", "l", "h", "i">>,
    <<"j", "a", "m", "m", "u", " ", "a", "n", "d", " ", "k", "a", "s", "h", "m", "i",
      "r">>,
    <<"l", "a", "d", "a", "k", "h">>,
    <<"a", "n", "d", "a", "m", "a", "n", " ", "a", "n", "d", " ", "n", "i", "c", "o",
      "b", "a", "r", " ", "i", "s", "l", "a", "n", "d", "s">>,
    <<"c", "h", "a", "n", "d", "i", "g", "a", "r", "h">>,
    <<"d", "a", "d", "r", "a", " ", "a", "n", "d", " ", "n", "a", "g", "a", "r", " ",
      "h", "a", "v", "e", "l", "i", " ", "a", "n", "d", " ", "d", "a", "m", "a", "n",
      " ", "a", "n", "d", " ", "d", "i", "u">>,
    <<"l", "a", "k", "s", "h", "a", "d", "w", "e", "e", "p">>,
    <<"p", "u", "d", "u", "c", "h", "e", "r", "r", "y">>>>

\* value.split(/\s+/): the segments between the runs of white space (an
\* empty segment before leading and after trailing white space)
IsSpace(c) == c \in WhiteSpace
RECURSIVE splitOnWhiteSpace(_)
splitOnWhiteSpace(s) ==
  IF \A i \in 1..Len(s) : ~IsSpace(s[i]) THEN <<s>>
  ELSE LET i == CHOOSE k \in 1..Len(s) : IsSpace(s[k]) /\ \A j \in 1..(k - 1) : ~IsSpace(s[j])
           rest == SubSeq(s, i, Len(s))
       IN <<SubSeq(s, 1, i - 1)>> \o splitOnWhiteSpace(trimStart(rest))

\* segment.charAt(0).toUpperCase() + segment.slice(1)
capitalize(segment) ==
  IF segment = <<>> THEN segment ELSE <<UpperOf(Head(segment))>> \o Tail(segment)

\* segments.join(' ')
RECURSIVE joinWithSpace(_)
joinWithSpace(segments) ==
  IF Len(segments) = 0 THEN <<>>
  ELSE IF Len(segments) = 1 THEN segments[1]
  ELSE segments[1] \o <<" ">> \o joinWithSpace(Tail(segments))

\* toTitleCase
toTitleCase(value) ==
  joinWithSpace([i \in 1..Len(splitOnWhiteSpace(value)) |->
                   capitalize(splitOnWhiteSpace(value)[i])])

\* an Error: its message, and for a development-only detail the field it names
Err(text) == [text |-> text]
Detail(field, text) == [text |-> text, field |-> field]

\* buildValidationError: new Error(isDevelopment ? detail : fallback)
buildValidationError(detail, fallback, dev) == IF dev THEN detail ELSE Err(fallback)

\* buildTransportError: new Error(isDevelopment ? detail : DEFAULT_ERROR_MESSAGE)
buildTransportError(detail, dev) == IF dev THEN detail ELSE Err(DEFAULT_ERROR_MESSAGE)

\* setAuthTokenHeader: the new activeAuthToken and the new
\* apiClient.defaults.headers.common.Authorization (Undefined when deleted)
Bearer(token) == Str(<<"Bearer ">> \o token)

\* setAuthTokenHeader that never activates a token
setAuthTokenHeader_neverSet(token) ==
  [activeAuthToken |-> Null, defaultsAuthorization |-> Undefined]

setAuthTokenHeader(token) ==
  LET active == IF Truthy(token) THEN Str(sanitizeString(token.v)) ELSE Null IN
  [activeAuthToken |-> active,
   defaultsAuthorization |-> IF Truthy(active) THEN Bearer(active.v) ELSE Undefined]

\* withAuthHeader that leaves the headers as they are
withAuthHeader_noHeader(active) == Undefined

\* withAuthHeader applied to headers without an Authorization entry
withAuthHeader(active) == IF Truthy(active) THEN Bearer(active.v) ELSE Undefined

\* the request interceptor's treatment of config.headers.Authorization;
\* config.headers starts from the client defaults
interceptAuthorization(active, configured) ==
  IF Truthy(active) THEN Bearer(active.v) ELSE Undefined

\* sanitizeRequiredString that validates the sanitized value and returns the raw one
sanitizeRequiredString_returnsRaw(value, fieldName, fallback, dev) ==
  IF ~IsString(value)
  THEN [ok |-> FALSE, v |-> <<>>,
        error |-> buildValidationError(Detail(fieldName, "must be a string."), fallback, dev)]
  ELSE IF sanitizeString(value.v) = <<>>
       THEN [ok |-> FALSE, v |-> <<>>,
             error |-> buildValidationError(Detail(fieldName, "is required."), fallback, dev)]
       ELSE [ok |-> TRUE, v |-> value.v, error |-> Err("")]

\* sanitizeRequiredString: ok |-> FALSE carries the Error thrown
sanitizeRequiredString(value, fieldName, fallback, dev) ==
  IF ~IsString(value)
  THEN [ok |-> FALSE, v |-> <<>>,
        error |-> buildValidationError(Detail(fieldName, "must be a string."), fallback, dev)]
  ELSE IF sanitizeString(value.v) = <<>>
       THEN [ok |-> FALSE, v |-> <<>>,
             error |-> buildValidationError(Detail(fieldName, "is required."), fallback, dev)]
       ELSE [ok |-> TRUE, v |-> sanitizeString(value.v), error |-> Err("")]

\* sanitizeDeep: strings are sanitized, arrays and objects are rebuilt
\* member by member (keys are kept as they are), other values are returned
RECURSIVE sanitizeDeep(_)
sanitizeDeep(input) ==
  CASE input.t = "string" -> Str(sanitizeString(input.v))
    [] input.t = "array" -> Arr([i \in 1..Len(input.v) |-> sanitizeDeep(input.v[i])])
    [] input.t = "object" -> Obj([k \in DOMAIN input.v |-> sanitizeDeep(input.v[k])])
    [] OTHER -> input

\* normalizeAuthResponse
normalizeAuthResponse(data, requireToken, dev) ==
  IF ~Truthy(data) \/ data.t \notin {"object", "array"}
  THEN [ok |-> FALSE, v |-> Undefined,
        error |-> buildTransportError(Err("Authentication response payload is missing."), dev)]
  ELSE
    LET tokenRaw == Prop(data, "token")
        messageRaw == Prop(data, "message")
        rawUser == Prop(data, "user")
        hasToken == IsString(tokenRaw) /\ trim(tokenRaw.v) # <<>>
    IN
    IF ~hasToken /\ requireToken
    THEN [ok |-> FALSE, v |-> Undefined,
          error |-> buildTransportError(
                      Err("Authentication response is missing a valid token."), dev)]
    ELSE IF rawUser # Undefined /\ rawUser # Null /\ ~IsObject(rawUser)
    THEN [ok |-> FALSE, v |-> Undefined,
          error |-> buildTransportError(
                      Err("Authentication response includes an invalid user payload."), dev)]
    ELSE [ok |-> TRUE,
          v |-> [token |-> IF hasToken THEN Str(sanitizeString(tokenRaw.v)) ELSE Undefined,
                 user |-> IF IsObject(rawUser) THEN sanitizeDeep(rawUser) ELSE Undefined,
                 message |-> IF IsString(messageRaw)
                             THEN Str(sanitizeString(messageRaw.v)) ELSE Undefined],
          error |-> Err("")]

\* validateLoginPayload, for a payload that is an object
validateLoginPayload(payload, dev) ==
  LET username == sanitizeRequiredString(Prop(payload, "username"), "username",
                                         LOGIN_VALIDATION_MESSAGE, dev)
      password == sanitizeRequiredString(Prop(payload, "password"), "password",
                                         LOGIN_VALIDATION_MESSAGE, dev)
  IN
  IF ~username.ok THEN [ok |-> FALSE, v |-> Undefined, error |-> username.error]
  ELSE IF ~password.ok THEN [ok |-> FALSE, v |-> Undefined, error |-> password.error]
  ELSE [ok |-> TRUE,
        v |-> Obj([username |-> Str(username.v), password |-> Str(password.v)]),
        error |-> Err("")]

\* phoneNumberRaw.replace(/[^+\d]/g, '') and phoneNumber.replace(/[^\d]/g, '')
IsPlusOrDigit(c) == c = "+" \/ c \in Digits
IsDigit(c) == c \in Digits
keepPlusAndDigits(s) == SelectSeq(s, IsPlusOrDigit)
keepDigits(s) == SelectSeq(s, IsDigit)

\* phoneNumber.indexOf('+'), counted from 0; -1 when there is none
indexOfPlus(s) ==
  IF \E i \in 1..Len(s) : s[i] = "+"
  THEN (CHOOSE i \in 1..Len(s) : s[i] = "+" /\ \A j \in 1..(i - 1) : s[j] # "+") - 1
  ELSE -1

PhoneMinDigits == 7
PhoneMaxDigits == 15

\* EMAIL_PATTERN /^[^\s@]+@[^\s@]+\.[^\s@]+$/
IsSpaceOrAt(c) == c \in WhiteSpace \/ c = "@"
matchesEmailPattern(s) ==
  \E p \in 1..Len(s) : \E q \in 1..Len(s) :
    /\ s[p] = "@" /\ s[q] = "."
    /\ 1 < p /\ p + 1 < q /\ q < Len(s)
    /\ \A i \in 1..Len(s) : i # p => ~IsSpaceOrAt(s[i])

ALLOWED_ROLES == Roles

RegisterFields ==
  <<"firstName", "lastName", "phoneNumber", "city", "state", "username", "password",
    "email", "role">>

\* validateRegisterPayload, for a payload that is an object; the checks are
\* made in the order of the code, the first failing one throws
validateRegisterPayload(payload, dev) ==
  LET req(f) == sanitizeRequiredString(Prop(payload, f), f, REGISTER_VALIDATION_MESSAGE, dev)
      fail(e) == [ok |-> FALSE, v |-> Undefined, error |-> e]
      invalid(text) == fail(buildValidationError(Err(text), REGISTER_VALIDATION_MESSAGE, dev))
      phoneNumber == keepPlusAndDigits(req("phoneNumber").v)
      digitsOnly == keepDigits(phoneNumber)
      logo == Prop(payload, "collegeLogo")
      emailRaw == toLowerCase(req("email").v)
      roleRaw == toLowerCase(req("role").v)
      sanitized == [firstName |-> Str(req("firstName").v),
                    lastName |-> Str(req("lastName").v),
                    email |-> Str(emailRaw),
                    role |-> Str(roleRaw),
                    phoneNumber |-> Str(phoneNumber),
                    city |-> Str(req("city").v),
                    state |-> Str(toLowerCase(req("state").v)),
                    username |-> Str(req("username").v),
                    password |-> Str(req("password").v),
                    collegeLogo |-> IF IsString(logo) THEN Str(sanitizeString(logo.v))
                                    ELSE Undefined]
  IN
  IF ~req("firstName").ok THEN fail(req("firstName").error)
  ELSE IF ~req("lastName").ok THEN fail(req("lastName").error)
  ELSE IF ~req("phoneNumber").ok THEN fail(req("phoneNumber").error)
  ELSE IF Len(digitsOnly) < PhoneMinDigits \/ Len(digitsOnly) > PhoneMaxDigits
       THEN invalid("Register payload contains an invalid phone number length.")
  ELSE IF indexOfPlus(phoneNumber) > 0
       THEN invalid("Register payload contains an invalid phone number format.")
  ELSE IF ~req("city").ok THEN fail(req("city").error)
  ELSE IF ~req("state").ok THEN fail(req("state").error)
  ELSE IF ~req("username").ok THEN fail(req("username").error)
  ELSE IF ~req("password").ok THEN fail(req("password").error)
  ELSE IF ~req("email").ok THEN fail(req("email").error)
  ELSE IF ~matchesEmailPattern(emailRaw)
       THEN invalid("Register payload contains an invalid email.")
  ELSE IF ~req("role").ok THEN fail(req("role").error)
  ELSE IF roleRaw \notin ALLOWED_ROLES
       THEN invalid("Register payload has an unsupported role.")
  ELSE [ok |-> TRUE, v |-> Obj(sanitized), error |-> Err("")]

\* register: body = {...sanitizedPayload, collegeLogo: sanitizedPayload.collegeLogo ?? ''}
registerBody(sanitizedPayload) ==
  Obj([k \in DOMAIN sanitizedPayload.v |->
         IF k = "collegeLogo" /\ sanitizedPayload.v[k] \in {Undefined, Null}
         THEN Str(<<>>) ELSE sanitizedPayload.v[k]])

\* errors as handleApiError sees them
AxiosError(status) == [kind |-> "axios", status |-> status]
PlainError(e) == [kind |-> "error", error |-> e]
NonError == [kind |-> "other"]

\* status of an AxiosError without a response (network failure, timeout)
NoStatus == 0

INVALID_CREDENTIALS_MESSAGE == "Invalid credentials. Please verify your details and try again."
ACCOUNT_EXISTS_MESSAGE == "An account with these details already exists."
SERVICE_UNAVAILABLE_MESSAGE == "The service is currently unavailable. Please try again later."

\* handleApiError: the Error it throws
handleApiError(error, dev) ==
  CASE error.kind = "axios" ->
         IF error.status = 400 \/ error.status = 401 THEN Err(INVALID_CREDENTIALS_MESSAGE)
         ELSE IF error.status = 409 THEN Err(ACCOUNT_EXISTS_MESSAGE)
         ELSE IF error.status # NoStatus /\ error.status >= 500
              THEN Err(SERVICE_UNAVAILABLE_MESSAGE)
         ELSE Err(DEFAULT_ERROR_MESSAGE)
    [] error.kind = "error" -> IF dev THEN error.error ELSE Err(DEFAULT_ERROR_MESSAGE)
    [] OTHER -> Err(DEFAULT_ERROR_MESSAGE)

\* the response interceptor: a failed request is passed to handleApiError,
\* whose Error becomes the rejection of apiClient.post
responseInterceptor(status, dev) == PlainError(handleApiError(AxiosError(status), dev))

\* what the server (an opaque collaborator) can answer
OkStatus == 200
ErrorStatuses == {400, 401, 409, 500}
IsOk(status) == status >= 200 /\ status < 300

\* login, from the arrival of the answer on: the AuthResponse it resolves
\* with, or the Error it rejects with.  An answer is [status, data];
\* status NoStatus is a request that got no response.
loginResult(answer, dev) ==
  IF IsOk(answer.status)
  THEN LET n == normalizeAuthResponse(answer.data, TRUE, dev) IN
       IF n.ok THEN n
       ELSE [ok |-> FALSE, v |-> Undefined,
             error |-> handleApiError(PlainError(n.error), dev)]
  ELSE [ok |-> FALSE, v |-> Undefined,
        error |-> handleApiError(responseInterceptor(answer.status, dev), dev)]

NETWORK_FAILED_TEXT == "Network request failed"
VERIFY_DETAILS_MESSAGE == "Please verify your details and try again."
ACCOUNT_CREATED_MESSAGE == "Account created successfully."

\* register, from the arrival of the answer on.  data is Undefined when
\* the body is not JSON.
registerResult(answer, dev) ==
  LET fail(e) == [ok |-> FALSE, v |-> Undefined, error |-> e] IN
  IF answer.status = NoStatus THEN fail(Err(NETWORK_FAILED_TEXT))
  ELSE IF ~IsOk(answer.status)
       THEN IF answer.status = 409 THEN fail(Err(ACCOUNT_EXISTS_MESSAGE))
            ELSE IF answer.status >= 400 /\ answer.status < 500
                 THEN fail(Err(VERIFY_DETAILS_MESSAGE))
            ELSE fail(Err(DEFAULT_ERROR_MESSAGE))
  ELSE IF Truthy(answer.data) /\ answer.data.t \in {"object", "array"}
       THEN normalizeAuthResponse(answer.data, FALSE, dev)
  ELSE [ok |-> TRUE,
        v |-> [token |-> Undefined, user |-> Undefined,
               message |-> Str(<<ACCOUNT_CREATED_MESSAGE>>)],
        error |-> Err("")]

\* login(payload) answered by answer: validateLoginPayload runs outside the
\* try block, before the request; sent tells whether POST /login was issued
login(payload, answer, dev) ==
  LET sanitizedPayload == validateLoginPayload(payload, dev)
      r == loginResult(answer, dev)
  IN
  IF ~sanitizedPayload.ok
  THEN [ok |-> FALSE, v |-> Undefined, error |-> sanitizedPayload.error, sent |-> FALSE]
  ELSE [ok |-> r.ok, v |-> r.v, error |-> r.error, sent |-> TRUE]

\* register(payload) answered by answer: validateRegisterPayload runs before
\* the request is built; sent tells whether POST /register was issued
register(payload, answer, dev) ==
  LET sanitizedPayload == validateRegisterPayload(payload, dev)
      r == registerResult(answer, dev)
  IN
  IF ~sanitizedPayload.ok
  THEN [ok |-> FALSE, v |-> Undefined, error |-> sanitizedPayload.error, sent |-> FALSE]
  ELSE [ok |-> r.ok, v |-> r.v, error |-> r.error, sent |-> TRUE]

\* verifySession, from the arrival of the answer on: TRUE when it resolves
verifySessionResolves(status) == status # NoStatus /\ IsOk(status)

SESSION_EXPIRED_MESSAGE == "Session expired. Please sign in again."
UNABLE_TO_VERIFY_MESSAGE == "Unable to verify session."

\* an answer to a fetch: thrown is "none" when fetch resolved with a
\* response (status, data; data is Undefined when the body is not JSON),
\* "error" when it rejected with an Error, "other" when something that is
\* not an Error was thrown
FetchAnswer(thrown, status, data) == [thrown |-> thrown, status |-> status, data |-> data]

\* verifySession with one message for every non-ok status
verifySession_oneMessage(answer) ==
  IF answer.thrown = "error"
  THEN [ok |-> FALSE, v |-> Undefined,
        error |-> [instance |-> "Error", text |-> NETWORK_FAILED_TEXT]]
  ELSE IF answer.thrown = "other"
  THEN [ok |-> FALSE, v |-> Undefined,
        error |-> [instance |-> "Error", text |-> DEFAULT_ERROR_MESSAGE]]
  ELSE IF ~IsOk(answer.status)
  THEN [ok |-> FALSE, v |-> Undefined,
        error |-> [instance |-> "Error", text |-> UNABLE_TO_VERIFY_MESSAGE,
                   status |-> answer.status]]
  ELSE [ok |-> TRUE, v |-> IF answer.data = Undefined THEN Null ELSE answer.data,
        error |-> Err("")]

\* verifySession: what it resolves with, or the value it rejects with
\* (instance tells what kind of object is thrown)
verifySession(answer) ==
  IF answer.thrown = "error"
  THEN [ok |-> FALSE, v |-> Undefined,
        error |-> [instance |-> "Error", text |-> NETWORK_FAILED_TEXT]]
  ELSE IF answer.thrown = "other"
  THEN [ok |-> FALSE, v |-> Undefined,
        error |-> [instance |-> "Error", text |-> DEFAULT_ERROR_MESSAGE]]
  ELSE IF ~IsOk(answer.status)
  THEN [ok |-> FALSE, v |-> Undefined,
        error |-> [instance |-> "Error",
                   text |-> IF answer.status = 401 THEN SESSION_EXPIRED_MESSAGE
                            ELSE UNABLE_TO_VERIFY_MESSAGE,
                   status |-> answer.status]]
  ELSE [ok |-> TRUE, v |-> IF answer.data = Undefined THEN Null ELSE answer.data,
        error |-> Err("")]

\* buildFallbackStates
buildFallbackStates ==
  [i \in 1..Len(FALLBACK_STATE_NAMES) |->
     [label |-> toTitleCase(FALLBACK_STATE_NAMES[i]), value |-> FALLBACK_STATE_NAMES[i]]]

\* pushIfValid with every name pushed, seen or not
pushIfValid_noSeen(values, candidate) ==
  IF ~IsString(candidate) THEN values
  ELSE LET normalized == sanitizeString(toLowerCase(candidate.v)) IN
       IF normalized = <<>> THEN values
       ELSE Append(values, [label |-> toTitleCase(normalized), value |-> normalized])

\* pushIfValid: values after the call (seen holds the values pushed so far)
pushIfValid(values, candidate) ==
  IF ~IsString(candidate) THEN values
  ELSE LET normalized == sanitizeString(toLowerCase(candidate.v)) IN
       IF normalized = <<>> \/ \E i \in 1..Len(values) : values[i].value = normalized
       THEN values
       ELSE Append(values, [label |-> toTitleCase(normalized), value |-> normalized])

\* a ?? b
Coalesce(a, b) == IF a \in {Undefined, Null} THEN b ELSE a

\* handleRecord
handleRecord(values, record) ==
  LET candidate == Coalesce(Prop(record, "state_name"),
                     Coalesce(Prop(record, "stateName"),
                       Coalesce(Prop(record, "name"), Prop(record, "label"))))
  IN IF IsString(candidate) THEN pushIfValid(values, candidate) ELSE values

\* item && typeof item === 'object': an object or an array
IsObjectLike(x) == x.t \in {"object", "array"}

\* the body of raw.forEach and of value.forEach
handleItem(values, item) ==
  IF IsString(item) THEN pushIfValid(values, item)
  ELSE IF IsObjectLike(item) THEN handleRecord(values, item)
  ELSE values

RECURSIVE handleItems(_, _)
handleItems(values, items) ==
  IF items = <<>> THEN values
  ELSE handleItems(handleItem(values, Head(items)), Tail(items))

\* Object.values(raw): the members in the order the keys were written
ObjectKeyOrder == <<"data", "states">>
ObjectValues(x) ==
  LET keys == SelectSeq(ObjectKeyOrder, LAMBDA k : k \in DOMAIN x.v)
  IN [i \in 1..Len(keys) |-> x.v[keys[i]]]

\* the body of Object.values(raw).forEach
handleMember(values, value) ==
  IF value.t = "array" THEN handleItems(values, value.v)
  ELSE IF IsObjectLike(value) THEN handleRecord(values, value)
  ELSE values

RECURSIVE handleMembers(_, _)
handleMembers(values, members) ==
  IF members = <<>> THEN values
  ELSE handleMembers(handleMember(values, Head(members)), Tail(members))

\* the values collected from the parsed body of an ok response
collectStates(raw) ==
  IF raw.t = "array" THEN handleItems(<<>>, raw.v)
  ELSE IF IsObject(raw) THEN handleMembers(<<>>, ObjectValues(raw))
  ELSE <<>>

\* String.prototype.localeCompare: white space and punctuation before digits
\* before letters, a lower-case letter before its upper-case form
CollationOrder ==
  <<" ", "NBSP", "+", ".", "@", "7">> \o
  [i \in 1..(2 * Len(LowerLetters)) |->
     IF i % 2 = 1 THEN LowerLetters[(i + 1) \div 2] ELSE UpperLetters[i \div 2]]
CharRank(c) ==
  IF \E i \in 1..Len(CollationOrder) : CollationOrder[i] = c
  THEN CHOOSE i \in 1..Len(CollationOrder) : CollationOrder[i] = c
  ELSE 0

\* a.localeCompare(b) < 0
RECURSIVE ComesBefore(_, _)
ComesBefore(a, b) ==
  IF b = <<>> THEN FALSE
  ELSE IF a = <<>> THEN TRUE
  ELSE IF CharRank(Head(a)) # CharRank(Head(b)) THEN CharRank(Head(a)) < CharRank(Head(b))
  ELSE ComesBefore(Tail(a), Tail(b))

\* values.sort((a, b) => a.label.localeCompare(b.label)), a stable sort
RECURSIVE sortByLabel(_)
sortByLabel(values) ==
  IF Len(values) <= 1 THEN values
  ELSE LET front == sortByLabel(SubSeq(values, 1, Len(values) - 1))
           last == values[Len(values)]
           k == Cardinality({i \in 1..Len(front) : ~ComesBefore(last.label, front[i].label)})
       IN SubSeq(front, 1, k) \o <<last>> \o SubSeq(front, k + 1, Len(front))

\* getStates that returns what it collected, an empty list included
getStates_noFallbackWhenEmpty(answer) ==
  IF answer.thrown # "none" THEN [ok |-> TRUE, v |-> buildFallbackStates]
  ELSE IF answer.status # OkStatus THEN [ok |-> TRUE, v |-> buildFallbackStates]
  ELSE IF answer.data = Undefined THEN [ok |-> TRUE, v |-> buildFallbackStates]
  ELSE [ok |-> TRUE, v |-> sortByLabel(collectStates(answer.data))]

\* getStates: the list it resolves with. fetch threw or was aborted, the
\* response is not ok, or response.json() threw (data Undefined): the
\* fallback list; the catch block leaves nothing to reject with
getStates(answer) ==
  IF answer.thrown # "none" THEN [ok |-> TRUE, v |-> buildFallbackStates]
  ELSE IF answer.status # OkStatus THEN [ok |-> TRUE, v |-> buildFallbackStates]
  ELSE IF answer.data = Undefined THEN [ok |-> TRUE, v |-> buildFallbackStates]
  ELSE IF Len(collectStates(answer.data)) = 0 THEN [ok |-> TRUE, v |-> buildFallbackStates]
  ELSE [ok |-> TRUE, v |-> sortByLabel(collectStates(answer.data))]

----------------------------------------------------------------------------
(* utils/errorHandler.ts *)

CHECK_CONNECTION_MESSAGE == "Check your connection and try again."

\* sanitized.toLowerCase().includes('network'), for the messages that occur
MentionsNetwork(text) == text = NETWORK_FAILED_TEXT

\* mapAuthError for an Error instance whose message is one of the texts of
\* the model (all of them trimmed and free of control characters)
mapAuthError(error, fallbackMessage, dev) ==
  IF error.text = "" \/ error.text = "Error" THEN Err(fallbackMessage)
  ELSE IF ~dev /\ MentionsNetwork(error.text) THEN Err(CHECK_CONNECTION_MESSAGE)
  ELSE error

\* the same texts character by character
CheckConnectionText ==
  <<"C", "h", "e", "c", "k", " ", "y", "o", "u", "r", " ", "c", "o", "n", "n", "e", "c",
    "t", "i", "o", "n", " ", "a", "n", "d", " ", "t", "r", "y", " ", "a", "g", "a", "i",
    "n", ".">>
ErrorWord == <<"E", "r", "r", "o", "r">>
NetworkWord == <<"n", "e", "t", "w", "o", "r", "k">>

\* String.prototype.includes
includes(s, part) ==
  \E i \in 0..(Len(s) - Len(part)) : SubSeq(s, i + 1, i + Len(part)) = part

\* an instance of Error with its message
ErrorInstance(message) == [t |-> "error", message |-> message]
Bool(b) == [t |-> "boolean", v |-> b]

\* sanitized || fallbackMessage
OrFallback(sanitized, fallbackMessage) ==
  IF sanitized # <<>> THEN sanitized ELSE fallbackMessage

\* mapAuthError applied to a value of type unknown
mapAuthErrorOfValue(error, fallbackMessage, dev) ==
  IF ~Truthy(error) THEN fallbackMessage
  ELSE IF IsString(error) THEN OrFallback(sanitizeMessage(error.v), fallbackMessage)
  ELSE IF error.t = "error"
  THEN LET sanitized == sanitizeMessage(error.message) IN
       IF sanitized = <<>> \/ sanitized = ErrorWord THEN fallbackMessage
       ELSE IF ~dev /\ includes(toLowerCase(sanitized), NetworkWord)
       THEN CheckConnectionText
       ELSE sanitized
  ELSE IF error.t \in {"object", "array"} /\ IsString(Prop(error, "message"))
  THEN OrFallback(sanitizeMessage(Prop(error, "message").v), fallbackMessage)
  ELSE fallbackMessage

----------------------------------------------------------------------------
(* screens: pure parts *)

\* resolveRole (Login and Register screens)
resolveRole(user) ==
  IF IsObject(user) /\ IsString(Prop(user, "role"))
     /\ trim(toLowerCase(Prop(user, "role").v)) \in Roles
  THEN trim(toLowerCase(Prop(user, "role").v))
  ELSE StudentRole

UsernameMinLength == 3
PasswordMinLength == 6
FormPhoneMinDigits == 10

\* usernameRules of both forms: required, minLength, validate
usernameRules(value) ==
  /\ Len(value) >= UsernameMinLength
  /\ trim(value) # <<>>
  /\ \A i \in 1..Len(trim(value)) : trim(value)[i] # " "

\* passwordRules of both forms: required, minLength
passwordRules(value) == Len(value) >= PasswordMinLength

\* val.replace(/\D/g, '')
phoneDigits(value) == keepDigits(value)

\* the rules of the Register form (react-hook-form runs them before onSubmit)
registerRules(values) ==
  /\ values.firstName # <<>>
  /\ values.lastName # <<>>
  /\ values.email # <<>> /\ matchesEmailPattern(values.email)
  /\ usernameRules(values.username)
  /\ Len(phoneDigits(values.phoneNumber)) >= FormPhoneMinDigits
  /\ values.city # <<>>
  /\ passwordRules(values.password)
  /\ values.confirmPassword = values.password

\* navigation/AppNavigator.tsx: the route the stack navigator starts on;
\* the initialRouteName prop is not passed on to Stack.Navigator
AppNavigator(initialRouteName) == "Login"

----------------------------------------------------------------------------
(* State *)

VARIABLES
  isDevelopment,          \* auth.ts isDevelopment / __DEV__ of the build
  keychain,               \* the entry of service 'student-app-session'
  activeAuthToken,        \* auth.ts activeAuthToken
  defaultsAuthorization,  \* apiClient.defaults.headers.common.Authorization
  request,                \* the request that left the client in the step just taken
  hydrate,                \* App.tsx hydrate(): position and verification result
  isHydrating,            \* App.tsx state
  initialRoute,           \* App.tsx state
  navStack,               \* routes of the stack navigator, <<>> before it renders
  firstScreen,            \* the route shown when the navigator first rendered
  sub,                    \* the onSubmit in flight of the Login / Register screen
  apiError,               \* apiError state of the mounted Login / Register screen
  statesLoading,          \* Register screen: a getStates request is in flight
  stateFetchError,        \* stateFetchError state of the Register screen
  statesController,       \* the AbortController of the screen's getStates request
  logoutPc,               \* DevPlayground handleLogout(): position
  settled,                \* the verifySession call that settled in the step just taken
  lastStoreOp,            \* the storage.ts call completed last
  lastApiCall             \* the auth.ts call completed last

vars == <<isDevelopment, keychain, activeAuthToken, defaultsAuthorization, request,
          hydrate, isHydrating, initialRoute, navStack, firstScreen, sub, apiError,
          statesLoading, stateFetchError, statesController, logoutPc, settled,
          lastStoreOp, lastApiCall>>

authVars == <<activeAuthToken, defaultsAuthorization>>
appVars == <<hydrate, isHydrating, initialRoute, navStack, firstScreen>>
screenVars == <<sub, apiError, statesLoading, stateFetchError, statesController, logoutPc>>

Flows == {"login", "register"}
ScreenOf(f) == IF f = "login" THEN "Login" ELSE "Register"

NoRequest == [endpoint |-> "none"]
NoMessage == Err("")
NoStoreOp == [op |-> "none"]
NoApiCall == [fn |-> "none"]
NoVerify == [by |-> "none"]

IdleFlow ==
  [pc |-> "idle", mounted |-> FALSE, username |-> <<>>, password |-> <<>>,
   session |-> NoSession, registered |-> FALSE]

Top(stack) == IF stack = <<>> THEN "none" ELSE stack[Len(stack)]
Routes(stack) == {stack[i] : i \in 1..Len(stack)}

----------------------------------------------------------------------------
(* Inputs *)

U_plain == <<"a", "b", "a">>
U_padded == <<" ", "b", "a">>
U_control == <<"a", "SOH", "b">>
FormUsernames == {U_plain, U_padded, U_control}

P_plain == <<"a", "b", "a", "b", "a", "7">>
P_tab == <<"a", "b", "a", "b", "a", "TAB">>
P_control == <<"SOH", "SOH", "SOH", "SOH", "SOH", "SOH">>
FormPasswords == {P_plain, P_tab, P_control}

LoginForms == [username : FormUsernames, password : FormPasswords]

TenDigits == <<"7", "7", "7", "7", "7", "7", "7", "7", "7", "7">>

BaseRegisterForm ==
  [firstName |-> <<"A", "a">>, lastName |-> <<"b">>,
   email |-> <<"a", "@", "b", ".", "a">>,
   username |-> U_plain, password |-> P_plain, confirmPassword |-> P_plain,
   phoneNumber |-> TenDigits, city |-> <<"a">>, state |-> <<"a">>]

RegisterForms ==
  {BaseRegisterForm,
   [BaseRegisterForm EXCEPT !.firstName = <<"A", "SOH", "a">>,
                            !.email = <<"A", "@", "b", ".", "a">>],
   [BaseRegisterForm EXCEPT !.username = U_control,
                            !.phoneNumber = <<"+">> \o TenDigits \o <<" ">>],
   [BaseRegisterForm EXCEPT !.state = <<>>],
   [BaseRegisterForm EXCEPT !.city = <<"DEL">>],
   [BaseRegisterForm EXCEPT !.password = P_tab, !.confirmPassword = P_tab]}

\* bodies of an ok answer to POST /login
LoginBodies ==
  {Undefined,
   Obj([token |-> Str(<<"a">>)]),
   Obj([token |-> Str(<<"b", "SOH">>),
        user |-> Obj([role |-> Str(<<"COLLEGE">>), name |-> Str(<<"b", "DEL">>)])]),
   Obj([token |-> Str(<<"SOH">>)]),
   Obj([token |-> Str(<<" ">>)]),
   Obj([token |-> Num(7)]),
   Obj([token |-> Str(<<"a">>), user |-> Str(<<"b">>)])}

LoginAnswers ==
  [status : {OkStatus}, data : LoginBodies]
    \cup [status : ErrorStatuses \cup {NoStatus}, data : {Undefined}]

RegisterBodies ==
  {Undefined,
   Obj([message |-> Str(<<"a", "SOH">>)]),
   Obj([user |-> Str(<<"b">>)])}

RegisterAnswers ==
  [status : {OkStatus}, data : RegisterBodies]
    \cup [status : ErrorStatuses \cup {NoStatus}, data : {Undefined}]

VerifyStatuses == {OkStatus, 401, 500, NoStatus}

\* what the keychain entry can hold when the app starts: nothing, an empty
\* or unparsable text, or a JSON text (of this or an earlier build)
InitialKeychains ==
  {NoCredentials, EmptyText, NotJSON,
   JSONStringify(Null),
   JSONStringify(Obj([role |-> Str(StudentRole)])),
   JSONStringify(Obj([token |-> Str(<<"a">>), role |-> Str(CollegeRole),
                      username |-> Str(U_plain)])),
   JSONStringify(Obj([token |-> Str(<<"b">>), role |-> Str(<<"admin">>),
                      user |-> Obj([name |-> Str(<<"b", "SOH">>)])])),
   JSONStringify(Obj([token |-> Str(<<"SOH">>), role |-> Str(StudentRole),
                      username |-> Num(7), user |-> Null]))}

Init ==
  /\ isDevelopment \in BOOLEAN
  /\ keychain \in InitialKeychains
  /\ activeAuthToken = Null
  /\ defaultsAuthorization = Undefined
  /\ request = NoRequest
  /\ hydrate = [pc |-> "getSession", verified |-> "none", nextRoute |-> "Login",
                isActive |-> TRUE]
  /\ isHydrating = TRUE
  /\ initialRoute = "Login"
  /\ navStack = <<>>
  /\ firstScreen = "none"
  /\ sub = [f \in Flows |-> IdleFlow]
  /\ apiError = [f \in Flows |-> NoMessage]
  /\ statesLoading = FALSE
  /\ stateFetchError = NoMessage
  /\ statesController = "none"
  /\ logoutPc = "idle"
  /\ settled = NoVerify
  /\ lastStoreOp = NoStoreOp
  /\ lastApiCall = NoApiCall

----------------------------------------------------------------------------
(* Requests as they leave the client *)

\* a fetch request built with withAuthHeader
FetchRequest(endpoint, body, active) ==
  [endpoint |-> endpoint, authorization |-> withAuthHeader(active),
   body |-> body, active |-> active]

\* an axios request after the request interceptor ran
AxiosRequest(endpoint, data, active, defaultsAuth) ==
  [endpoint |-> endpoint,
   authorization |-> interceptAuthorization(active, defaultsAuth),
   body |-> sanitizeDeep(data), active |-> active]

----------------------------------------------------------------------------
(* App.tsx: hydration *)

\* the finally block without setIsHydrating(false)
FinishHydration_staysHydrating(nextRoute, verified) ==
  /\ hydrate' = [hydrate EXCEPT !.pc = "done", !.verified = verified,
                                !.nextRoute = nextRoute]
  /\ initialRoute' = IF hydrate.isActive THEN nextRoute ELSE initialRoute
  /\ UNCHANGED <<isHydrating, navStack, firstScreen>>

\* the finally block: when isActive, setInitialRoute(nextRoute) and
\* setIsHydrating(false), and the navigator renders
FinishHydration(nextRoute, verified) ==
  /\ hydrate' = [hydrate EXCEPT !.pc = "done", !.verified = verified,
                                !.nextRoute = nextRoute]
  /\ IF hydrate.isActive
     THEN /\ initialRoute' = nextRoute
          /\ isHydrating' = FALSE
          /\ navStack' = <<AppNavigator(nextRoute)>>
          /\ firstScreen' = AppNavigator(nextRoute)
     ELSE UNCHANGED <<isHydrating, initialRoute, navStack, firstScreen>>

\* hydrate() up to its first network await: getAuthSession, then either
\* setAuthTokenHeader(session.token) and the verifySession request, or
\* setAuthTokenHeader(null) and the end of hydration
HydrateGetSession(getOutcome) ==
  /\ hydrate.pc = "getSession"
  /\ LET session == getAuthSession(keychain, getOutcome)
         hasToken == session # NoSession /\ session.token # <<>>
         header == setAuthTokenHeader(IF hasToken THEN Str(session.token) ELSE Null)
     IN
     /\ activeAuthToken' = header.activeAuthToken
     /\ defaultsAuthorization' = header.defaultsAuthorization
     /\ IF hasToken
        THEN /\ request' = FetchRequest("/getdata", Undefined, header.activeAuthToken)
             /\ hydrate' = [hydrate EXCEPT !.pc = "verify"]
             /\ UNCHANGED <<isHydrating, initialRoute, navStack, firstScreen>>
        ELSE /\ FinishHydration("Login", "none")
             /\ request' = NoRequest
  /\ UNCHANGED <<isDevelopment, keychain, screenVars, lastStoreOp, lastApiCall>>
  /\ settled' = NoVerify

\* the answer to hydrate()'s verifySession: the route becomes DevPlayground,
\* or clearAuthSession is started
HydrateVerified(status) ==
  /\ hydrate.pc = "verify"
  /\ IF verifySessionResolves(status)
     THEN FinishHydration("DevPlayground", "ok")
     ELSE /\ hydrate' = [hydrate EXCEPT !.pc = "clear", !.verified = "failed"]
          /\ UNCHANGED <<isHydrating, initialRoute, navStack, firstScreen>>
  /\ settled' = [by |-> "hydrate", resolved |-> verifySessionResolves(status)]
  /\ UNCHANGED <<isDevelopment, keychain, authVars, screenVars, lastStoreOp, lastApiCall>>
  /\ request' = NoRequest

\* the same without setAuthTokenHeader(null)
HydrateCleared_keepsToken(resetOutcome) ==
  /\ hydrate.pc = "clear"
  /\ keychain' = clearAuthSession(keychain, resetOutcome)
  /\ UNCHANGED <<lastStoreOp, lastApiCall, authVars>>
  /\ FinishHydration("Login", "failed")
  /\ UNCHANGED <<isDevelopment, screenVars>>
  /\ request' = NoRequest
  /\ settled' = NoVerify

\* clearAuthSession settles after a failed verification: setAuthTokenHeader(null)
HydrateCleared(resetOutcome) ==
  /\ hydrate.pc = "clear"
  /\ keychain' = clearAuthSession(keychain, resetOutcome)
  /\ UNCHANGED <<lastStoreOp, lastApiCall>>
  /\ activeAuthToken' = setAuthTokenHeader(Null).activeAuthToken
  /\ defaultsAuthorization' = setAuthTokenHeader(Null).defaultsAuthorization
  /\ FinishHydration("Login", "failed")
  /\ UNCHANGED <<isDevelopment, screenVars>>
  /\ request' = NoRequest
  /\ settled' = NoVerify

\* App unmounts while hydrate() is running: the cleanup of the effect sets
\* isActive to false
AppUnmount ==
  /\ hydrate.pc # "done"
  /\ hydrate.isActive
  /\ hydrate' = [hydrate EXCEPT !.isActive = FALSE]
  /\ UNCHANGED <<isDevelopment, keychain, authVars, isHydrating, initialRoute, navStack,
                 firstScreen, screenVars, lastStoreOp, lastApiCall>>
  /\ request' = NoRequest
  /\ settled' = NoVerify

\* the steps of hydrate()
HydrateNext ==
  \/ \E o \in GetOutcomes : HydrateGetSession(o)
  \/ \E st \in VerifyStatuses : HydrateVerified(st)
  \/ \E o \in ResetOutcomes : HydrateCleared(o)

----------------------------------------------------------------------------
(* Login and Register screens: onSubmit *)

LOGIN_FALLBACK == "Unable to sign in. Check your details and try again."
REGISTER_FALLBACK == "Unable to create account. Please check your details."
INVALID_RESPONSE_TEXT == "Invalid response from authentication service."
SIGN_IN_MANUALLY_TEXT ==
  "Unable to sign in after registration. Please try signing in manually."

FallbackOf(f) == IF f = "login" THEN LOGIN_FALLBACK ELSE REGISTER_FALLBACK
NoTokenTextOf(f) == IF f = "login" THEN INVALID_RESPONSE_TEXT ELSE SIGN_IN_MANUALLY_TEXT

\* a screen can take a submission: hydration is over, the screen is on top
\* and its form is not submitting
CanSubmit(f) ==
  /\ ~isHydrating
  /\ Top(navStack) = ScreenOf(f)
  /\ sub[f].pc = "idle"

\* the screens whose instance is removed when the stack becomes newStack
Unmounted(newStack) == {f \in Flows : ScreenOf(f) \notin Routes(newStack)}

\* the catch block of onSubmit without setApiError
Catch_noMessage(f, error) ==
  /\ sub' = [sub EXCEPT ![f] = IdleFlow]
  /\ UNCHANGED apiError

\* the catch block of onSubmit: mapAuthError, and setApiError when mounted
Catch(f, error) ==
  /\ sub' = [sub EXCEPT ![f] = IdleFlow]
  /\ apiError' = IF sub[f].mounted
                 THEN [apiError EXCEPT ![f] = mapAuthError(error, FallbackOf(f), isDevelopment)]
                 ELSE apiError

\* the same when the submission has just started (the screen is mounted)
CatchAtSubmit(f, error) ==
  /\ sub' = [sub EXCEPT ![f] = IdleFlow]
  /\ apiError' = [apiError EXCEPT ![f] = mapAuthError(error, FallbackOf(f), isDevelopment)]

\* LoginScreen onSubmit up to the await of login(): validateLoginPayload and
\* the POST /login request
LoginOnSubmit(values) ==
  /\ CanSubmit("login")
  /\ usernameRules(values.username) /\ passwordRules(values.password)
  /\ LET sanitizedUsername == trim(values.username)
         payload == validateLoginPayload(
                      Obj([username |-> Str(sanitizedUsername),
                           password |-> Str(values.password)]), isDevelopment)
     IN
     IF payload.ok
     THEN /\ request' = AxiosRequest("/login", payload.v, activeAuthToken,
                                         defaultsAuthorization)
          /\ sub' = [sub EXCEPT !["login"] =
                       [IdleFlow EXCEPT !.pc = "login", !.mounted = TRUE,
                                        !.username = sanitizedUsername]]
          /\ apiError' = [apiError EXCEPT !["login"] = NoMessage]
     ELSE /\ CatchAtSubmit("login", payload.error)
          /\ request' = NoRequest
  /\ UNCHANGED <<isDevelopment, keychain, authVars, appVars, statesLoading, stateFetchError, statesController, logoutPc, lastStoreOp, lastApiCall>>
  /\ settled' = NoVerify

\* RegisterScreen onSubmit up to the await of registerUser(): the phone and
\* confirmation checks, validateRegisterPayload and the POST /register request
RegisterOnSubmit(values) ==
  /\ CanSubmit("register")
  /\ registerRules(values)
  /\ LET sanitizedPhone == trim(phoneDigits(values.phoneNumber))
         sanitizedUsername == trim(values.username)
         payloadForApi ==
           Obj([firstName |-> Str(trim(values.firstName)),
                lastName |-> Str(trim(values.lastName)),
                email |-> Str(toLowerCase(trim(values.email))),
                username |-> Str(sanitizedUsername),
                password |-> Str(values.password),
                role |-> Str(StudentRole),
                phoneNumber |-> Str(sanitizedPhone),
                city |-> Str(trim(values.city)),
                state |-> Str(values.state),
                collegeLogo |-> Str(<<>>)])
         payload == validateRegisterPayload(payloadForApi, isDevelopment)
     IN
     IF Len(sanitizedPhone) < FormPhoneMinDigits \/ values.password # values.confirmPassword
     THEN request' = NoRequest /\ UNCHANGED sub
          /\ apiError' = [apiError EXCEPT !["register"] = NoMessage]
     ELSE IF payload.ok
     THEN /\ request' = FetchRequest("/register", registerBody(payload.v),
                                         activeAuthToken)
          /\ sub' = [sub EXCEPT !["register"] =
                       [IdleFlow EXCEPT !.pc = "register", !.mounted = TRUE,
                                        !.username = sanitizedUsername,
                                        !.password = values.password]]
          /\ apiError' = [apiError EXCEPT !["register"] = NoMessage]
     ELSE /\ CatchAtSubmit("register", payload.error)
          /\ request' = NoRequest
  /\ UNCHANGED <<isDevelopment, keychain, authVars, appVars, statesLoading, stateFetchError, statesController, logoutPc, lastStoreOp, lastApiCall>>
  /\ settled' = NoVerify

\* registerUser() settles; when it resolved, loginUser() is called: its
\* validateLoginPayload and the POST /login request
RegisterResponse(answer) ==
  /\ sub["register"].pc = "register"
  /\ LET r == registerResult(answer, isDevelopment)
         payload == validateLoginPayload(
                      Obj([username |-> Str(sub["register"].username),
                           password |-> Str(sub["register"].password)]), isDevelopment)
     IN
     IF ~r.ok
     THEN Catch("register", r.error) /\ request' = NoRequest
     ELSE IF ~payload.ok
     THEN Catch("register", payload.error) /\ request' = NoRequest
     ELSE /\ request' = AxiosRequest("/login", payload.v, activeAuthToken,
                                         defaultsAuthorization)
          /\ sub' = [sub EXCEPT !["register"].pc = "login",
                                !["register"].registered = TRUE]
          /\ UNCHANGED apiError
  /\ UNCHANGED <<isDevelopment, keychain, authVars, appVars, statesLoading, stateFetchError, statesController, logoutPc, lastStoreOp, lastApiCall>>
  /\ settled' = NoVerify

\* login() settles (either screen); with a token, saveAuthSession is called
\* and the keychain write is awaited
LoginResponse(f, answer) ==
  /\ sub[f].pc = "login"
  /\ LET r == loginResult(answer, isDevelopment) IN
     IF ~r.ok
     THEN Catch(f, r.error)
     ELSE IF ~Truthy(r.v.token)
     THEN Catch(f, Err(NoTokenTextOf(f)))
     ELSE /\ sub' = [sub EXCEPT ![f].pc = "save",
                                ![f].session = [token |-> r.v.token.v,
                                                role |-> resolveRole(r.v.user),
                                                username |-> sub[f].username,
                                                user |-> r.v.user]]
          /\ UNCHANGED apiError
  /\ UNCHANGED <<isDevelopment, keychain, authVars, appVars, statesLoading, stateFetchError, statesController, logoutPc, lastStoreOp, lastApiCall>>
  /\ request' = NoRequest
  /\ settled' = NoVerify

\* saveAuthSession settles; when it resolved: setAuthTokenHeader(token) and
\* the verifySession request
SessionSaved(f, setOutcome) ==
  /\ sub[f].pc = "save"
  /\ LET saved == saveAuthSession(keychain, sub[f].session, setOutcome)
         header == setAuthTokenHeader(Str(sub[f].session.token))
     IN
     /\ keychain' = saved.keychain
     /\ UNCHANGED <<lastStoreOp, lastApiCall>>
     /\ IF saved.threw
        THEN /\ Catch(f, Err(saved.message))
             /\ request' = NoRequest /\ UNCHANGED authVars
        ELSE /\ activeAuthToken' = header.activeAuthToken
             /\ defaultsAuthorization' = header.defaultsAuthorization
             /\ request' = FetchRequest("/getdata", Undefined, header.activeAuthToken)
             /\ sub' = [sub EXCEPT ![f].pc = "verify"]
             /\ UNCHANGED apiError
  /\ UNCHANGED <<isDevelopment, appVars, statesLoading, stateFetchError, statesController, logoutPc>>
  /\ settled' = NoVerify

\* the cleanup of the Register screen without the abort
abortStates_never(controller) == "none"

\* the cleanup of the Register screen: statesControllerRef.current?.abort()
\* and statesControllerRef.current = null; a request in flight is aborted
abortStates(controller) == IF controller = "active" THEN "aborted" ELSE "none"

\* navigation.reset / navigate / pop: the stack becomes newStack; the screens
\* removed from it unmount (isMountedRef.current = false, local state is
\* dropped, the Register screen aborts its getStates request)
ResetScreens(newStack, flows) ==
  /\ navStack' = newStack
  /\ statesController' = IF "register" \in Unmounted(newStack) /\ "Register" \in Routes(navStack)
                         THEN abortStates(statesController)
                         ELSE statesController
  /\ stateFetchError' = IF "register" \in Unmounted(newStack) THEN NoMessage
                        ELSE stateFetchError
  /\ sub' = [g \in Flows |-> IF g \in Unmounted(newStack) /\ flows[g].pc # "idle"
                             THEN [flows[g] EXCEPT !.mounted = FALSE]
                             ELSE flows[g]]
  /\ apiError' = [g \in Flows |-> IF g \in Unmounted(newStack) THEN NoMessage
                                  ELSE apiError[g]]

\* the same with navigation.reset whether the screen is mounted or not
SessionVerified_alwaysResets(f, status) ==
  /\ sub[f].pc = "verify"
  /\ settled' = [by |-> f, resolved |-> verifySessionResolves(status)]
  /\ ResetScreens(<<"DevPlayground">>, [sub EXCEPT ![f] = IdleFlow])
  /\ statesLoading' = FALSE
  /\ UNCHANGED <<isDevelopment, keychain, authVars, hydrate, isHydrating, initialRoute, firstScreen, logoutPc, lastStoreOp, lastApiCall>>
  /\ request' = NoRequest

\* verifySession settles after a login (either screen): a failure is only
\* logged; navigation.reset to DevPlayground when the screen is still mounted
SessionVerified(f, status) ==
  /\ sub[f].pc = "verify"
  /\ settled' = [by |-> f, resolved |-> verifySessionResolves(status)]
  /\ IF sub[f].mounted
     THEN /\ ResetScreens(<<"DevPlayground">>, [sub EXCEPT ![f] = IdleFlow])
          /\ statesLoading' = FALSE
     ELSE /\ sub' = [sub EXCEPT ![f] = IdleFlow]
          /\ UNCHANGED <<navStack, apiError, statesLoading, stateFetchError, statesController>>
  /\ UNCHANGED <<isDevelopment, keychain, authVars, hydrate, isHydrating, initialRoute, firstScreen, logoutPc, lastStoreOp, lastApiCall>>
  /\ request' = NoRequest

\* LoginScreen handleRegisterNavigation (the button is disabled while the
\* form is submitting); the Register screen mounts and loadStates() issues
\* the getStates request
NavigateToRegister ==
  /\ CanSubmit("login")
  /\ navStack' = <<"Login", "Register">>
  /\ statesLoading' = TRUE
  /\ stateFetchError' = NoMessage
  /\ statesController' = "active"
  /\ request' = FetchRequest("/getstates", Undefined, activeAuthToken)
  /\ UNCHANGED <<isDevelopment, keychain, authVars, hydrate, isHydrating, initialRoute, firstScreen, sub, apiError, logoutPc, lastStoreOp, lastApiCall>>
  /\ settled' = NoVerify

\* RegisterScreen handleNavigateToLogin (disabled while the form is
\* submitting): back to the Login route below
NavigateToLogin ==
  /\ CanSubmit("register")
  /\ ResetScreens(<<"Login">>, sub)
  /\ statesLoading' = FALSE
  /\ UNCHANGED <<isDevelopment, keychain, authVars, hydrate, isHydrating, initialRoute, firstScreen, logoutPc, lastStoreOp, lastApiCall>>
  /\ request' = NoRequest
  /\ settled' = NoVerify

\* the back gesture on the Register screen (gestureEnabled: true), possible
\* also while its form is submitting
GoBack ==
  /\ Top(navStack) = "Register"
  /\ sub["register"].pc # "idle"
  /\ ResetScreens(<<"Login">>, sub)
  /\ statesLoading' = FALSE
  /\ UNCHANGED <<isDevelopment, keychain, authVars, hydrate, isHydrating, initialRoute, firstScreen, logoutPc, lastStoreOp, lastApiCall>>
  /\ request' = NoRequest
  /\ settled' = NoVerify

STATES_FALLBACK == "Unable to load states. Tap reload."

\* what the screen's getStates request can be answered with
StateFetchAnswers ==
  {FetchAnswer("error", NoStatus, Undefined), FetchAnswer("none", 500, Undefined),
   FetchAnswer("none", OkStatus, Undefined), FetchAnswer("none", OkStatus, Arr(<<>>)),
   FetchAnswer("none", OkStatus, Arr(<<Str(<<"g", "o", "a">>)>>))}

\* getStates settles on the mounted Register screen: setStates and
\* setStateFetchError('') when it resolved, setStateFetchError(message)
\* when it rejected; then setStatesLoading(false) and the controller is dropped
StatesLoaded(answer) ==
  /\ statesLoading
  /\ statesLoading' = FALSE
  /\ stateFetchError' = IF getStates(answer).ok THEN NoMessage
                        ELSE mapAuthError(Err(NETWORK_FAILED_TEXT), STATES_FALLBACK,
                                          isDevelopment)
  /\ statesController' = "none"
  /\ UNCHANGED <<isDevelopment, keychain, authVars, appVars, sub, apiError, logoutPc, lastStoreOp, lastApiCall>>
  /\ request' = NoRequest
  /\ settled' = NoVerify

----------------------------------------------------------------------------
(* DevPlayground: handleLogout *)

\* handleLogout up to the await of clearAuthSession()
LogoutPressed ==
  /\ Top(navStack) = "DevPlayground"
  /\ logoutPc = "idle"
  /\ logoutPc' = "clearing"
  /\ UNCHANGED <<isDevelopment, keychain, authVars, appVars, sub, apiError, statesLoading, stateFetchError, statesController, lastStoreOp, lastApiCall>>
  /\ request' = NoRequest
  /\ settled' = NoVerify

\* clearAuthSession settles (it never rejects): setAuthTokenHeader(null),
\* then navigation.reset to Login
LogoutCleared(resetOutcome) ==
  /\ logoutPc = "clearing"
  /\ keychain' = clearAuthSession(keychain, resetOutcome)
  /\ UNCHANGED <<lastStoreOp, lastApiCall>>
  /\ activeAuthToken' = setAuthTokenHeader(Null).activeAuthToken
  /\ defaultsAuthorization' = setAuthTokenHeader(Null).defaultsAuthorization
  /\ ResetScreens(<<"Login">>, sub)
  /\ logoutPc' = "idle"
  /\ UNCHANGED <<isDevelopment, hydrate, isHydrating, initialRoute, firstScreen, statesLoading>>
  /\ request' = NoRequest
  /\ settled' = NoVerify

----------------------------------------------------------------------------
(* The app *)

Next ==
  \/ \E o \in GetOutcomes : HydrateGetSession(o)
  \/ \E st \in VerifyStatuses : HydrateVerified(st)
  \/ \E o \in ResetOutcomes : HydrateCleared(o)
  \/ \E v \in LoginForms : LoginOnSubmit(v)
  \/ \E v \in RegisterForms : RegisterOnSubmit(v)
  \/ \E a \in RegisterAnswers : RegisterResponse(a)
  \/ \E f \in Flows : \E a \in LoginAnswers : LoginResponse(f, a)
  \/ \E f \in Flows : \E o \in SetOutcomes : SessionSaved(f, o)
  \/ \E f \in Flows : \E st \in VerifyStatuses : SessionVerified(f, st)
  \/ NavigateToRegister
  \/ NavigateToLogin
  \/ GoBack
  \/ \E a \in StateFetchAnswers : StatesLoaded(a)
  \/ LogoutPressed
  \/ \E o \in ResetOutcomes : LogoutCleared(o)
  \/ AppUnmount

Spec == Init /\ [][Next]_vars

\* the app when every storage and network call that hydrate() awaits
\* eventually resolves or rejects
LiveSpec == Spec /\ WF_vars(HydrateNext)

----------------------------------------------------------------------------
(* The session store called on its own: the exported functions of          *)
(* utils/storage.ts applied to every session of a bounded set              *)

\* longest token passed to the store
MaxTokenLen == 2

ApiTokens == StringsOver({"a", " ", "SOH"}, MaxTokenLen)
ApiUsernames == {<<"b">>, <<"b", "TAB", "b">>, <<" ", "DEL">>}

\* user profiles as they come out of JSON.parse
ApiUsers ==
  {Undefined,
   Obj([name |-> Str(<<"b">>)]),
   Obj([name |-> Str(<<"b", "SOH">>), role |-> Str(CollegeRole)])}

BaseSession == [token |-> <<"a">>, role |-> StudentRole, username |-> <<>>, user |-> Undefined]

\* every token with one username, role and profile; every username, role
\* and profile with one token
ApiSessions ==
  {[BaseSession EXCEPT !.token = tk] : tk \in ApiTokens}
    \cup [token : {<<"a", "a">>}, role : Roles, username : ApiUsernames, user : ApiUsers]

StoreFrame ==
  UNCHANGED <<isDevelopment, authVars, request, appVars, screenVars, settled, lastApiCall>>

SaveAuthSessionCall(session, setOutcome) ==
  /\ keychain' = saveAuthSession(keychain, session, setOutcome).keychain
  /\ lastStoreOp' = [op |-> "saveAuthSession", session |-> session,
                     threw |-> saveAuthSession(keychain, session, setOutcome).threw,
                     unchanged |-> keychain' = keychain]
  /\ StoreFrame

GetAuthSessionCall(getOutcome) ==
  /\ lastStoreOp' = [op |-> "getAuthSession", outcome |-> getOutcome,
                     result |-> getAuthSession(keychain, getOutcome)]
  /\ UNCHANGED keychain
  /\ StoreFrame

ClearAuthSessionCall(resetOutcome) ==
  /\ keychain' = clearAuthSession(keychain, resetOutcome)
  /\ lastStoreOp' = [op |-> "clearAuthSession", outcome |-> resetOutcome]
  /\ StoreFrame

SaveAuthTokenCall(token, getOutcome, setOutcome) ==
  /\ keychain' = saveAuthToken(keychain, token, getOutcome, setOutcome).keychain
  /\ lastStoreOp' = [op |-> "saveAuthToken", token |-> token,
                     existing |-> getAuthSession(keychain, getOutcome),
                     threw |-> saveAuthToken(keychain, token, getOutcome, setOutcome).threw,
                     unchanged |-> keychain' = keychain]
  /\ StoreFrame

GetAuthTokenCall(getOutcome) ==
  /\ lastStoreOp' = [op |-> "getAuthToken", outcome |-> getOutcome,
                     result |-> getAuthToken(keychain, getOutcome)]
  /\ UNCHANGED keychain
  /\ StoreFrame

ClearAuthTokenCall(resetOutcome) ==
  /\ keychain' = clearAuthToken(keychain, resetOutcome)
  /\ lastStoreOp' = [op |-> "clearAuthToken", outcome |-> resetOutcome]
  /\ StoreFrame

StorageNext ==
  \/ \E s \in ApiSessions : \E o \in SetOutcomes : SaveAuthSessionCall(s, o)
  \/ \E o \in GetOutcomes : GetAuthSessionCall(o)
  \/ \E o \in ResetOutcomes : ClearAuthSessionCall(o)
  \/ \E tk \in ApiTokens : \E g \in GetOutcomes : \E o \in SetOutcomes :
       SaveAuthTokenCall(tk, g, o)
  \/ \E o \in GetOutcomes : GetAuthTokenCall(o)
  \/ \E o \in ResetOutcomes : ClearAuthTokenCall(o)

StorageSpec == Init /\ [][StorageNext]_vars

----------------------------------------------------------------------------
(* The API client called on its own: the exported functions of api/auth.ts *)
(* applied to payloads and answers of bounded sets                         *)

\* values a caller can pass for a required field: a string, one that needs
\* sanitizing, one that is empty after sanitization, the empty string, and
\* values that are not strings
FieldValues(good) ==
  {Str(good), Str(<<" ", "SOH">> \o good), Str(<<"SOH", " ">>), Str(<<>>), Num(7), Undefined}

\* passwords that begin or end with white space
PaddedPasswords == {Str(<<" ">> \o P_plain), Str(P_plain \o <<"NBSP">>)}

ApiLoginPayloads ==
  {Obj([username |-> u, password |-> pw]) :
     u \in FieldValues(U_plain), pw \in FieldValues(P_plain) \cup PaddedPasswords}

SevenDigits == <<"7", "7", "7", "7", "7", "7", "7">>

\* phone numbers around the limits of validateRegisterPayload
ApiPhones ==
  {SevenDigits, SubSeq(SevenDigits, 1, 6), TenDigits \o SubSeq(SevenDigits, 1, 5),
   TenDigits \o SubSeq(SevenDigits, 1, 6),
   <<"+">> \o SevenDigits, <<" ", "+">> \o SevenDigits \o <<"a">>,
   <<"7", "+">> \o SevenDigits, <<"+", "7", "+">> \o SevenDigits,
   SevenDigits \o <<"+">>}

ApiEmails ==
  {<<"a", "@", "b", ".", "a">>, <<"A", "@", "b", ".", "a", "SOH">>,
   <<"a", "b", ".", "a">>, <<"a", "@", "b">>, <<"a", " ", "@", "b", ".", "a">>,
   <<"a", "@", "@", "b", ".", "a">>, <<"@", "b", ".", "a">>}

BaseRegisterPayload ==
  [firstName |-> Str(<<"A", "a">>), lastName |-> Str(<<"b">>),
   email |-> Str(<<"a", "@", "b", ".", "a">>), role |-> Str(StudentRole),
   phoneNumber |-> Str(SevenDigits), city |-> Str(<<"a">>), state |-> Str(<<"A">>),
   username |-> Str(U_plain), password |-> Str(P_plain), collegeLogo |-> Undefined]

\* the base payload with one field varied
ApiRegisterPayloads ==
  {Obj(BaseRegisterPayload)}
    \cup {Obj([BaseRegisterPayload EXCEPT ![f] = x]) :
            f \in {"firstName", "lastName", "city", "state", "username", "password"},
            x \in FieldValues(<<"a", "b">>)}
    \cup {Obj([BaseRegisterPayload EXCEPT !.phoneNumber = x]) :
            x \in {Str(ph) : ph \in ApiPhones} \cup {Num(7), Undefined, Str(<<"SOH">>)}}
    \cup {Obj([BaseRegisterPayload EXCEPT !.email = x]) :
            x \in {Str(e) : e \in ApiEmails} \cup {Num(7), Str(<<" ">>)}}
    \cup {Obj([BaseRegisterPayload EXCEPT !.role = x]) :
            x \in {Str(CollegeRole), Str(<<"admin">>), Str(<<"SOH">>), Num(7), Undefined}}
    \cup {Obj([BaseRegisterPayload EXCEPT !.collegeLogo = x]) :
            x \in {Str(<<"a", "SOH">>), Str(<<>>), Null}}

\* a behaviour is one call: the functions keep no state of their own
\* between calls (the active token is set by the screens, not by them)
ApiIdle == lastApiCall = NoApiCall

ApiFrame ==
  UNCHANGED <<isDevelopment, keychain, authVars, appVars, screenVars, settled, lastStoreOp>>

\* login(payload) from the call to its settling
LoginCall(payload, answer) ==
  LET r == login(payload, answer, isDevelopment) IN
  /\ ApiIdle
  /\ lastApiCall' = [fn |-> "login", payload |-> payload, answer |-> answer, result |-> r]
  /\ request' = IF r.sent
                THEN AxiosRequest("/login", validateLoginPayload(payload, isDevelopment).v,
                                  activeAuthToken, defaultsAuthorization)
                ELSE NoRequest
  /\ ApiFrame

\* register(payload) from the call to its settling
RegisterCall(payload, answer) ==
  LET r == register(payload, answer, isDevelopment) IN
  /\ ApiIdle
  /\ lastApiCall' = [fn |-> "register", payload |-> payload, answer |-> answer, result |-> r]
  /\ request' = IF r.sent
                THEN FetchRequest("/register",
                                  registerBody(validateRegisterPayload(payload, isDevelopment).v),
                                  activeAuthToken)
                ELSE NoRequest
  /\ ApiFrame

\* answers to GET /getdata
VerifyAnswers ==
  {FetchAnswer("none", st, d) :
     st \in {OkStatus, 204, 401, 403, 500},
     d \in {Undefined, Null, Obj([message |-> Str(<<"a", "SOH">>)])}}
    \cup {FetchAnswer("error", NoStatus, Undefined), FetchAnswer("other", NoStatus, Undefined)}

\* verifySession() from the call to its settling
VerifySessionCall(answer) ==
  /\ ApiIdle
  /\ lastApiCall' = [fn |-> "verifySession", answer |-> answer,
                     result |-> verifySession(answer)]
  /\ request' = FetchRequest("/getdata", Undefined, activeAuthToken)
  /\ ApiFrame

\* the longest array in a /getstates body
MaxStates == 3

\* what GET /getstates can be answered with
StateItems ==
  {Str(<<"g", "o", "a">>), Str(<<" ", "G", "o", "a", "SOH">>),
   Str(<<"a", " ", "b">>), Str(<<"a", "NBSP", "b">>), Str(<<"SOH", " ">>),
   Obj([state_name |-> Str(<<"A", "b">>)]),
   Obj([stateName |-> Null, name |-> Str(<<"g", "o", "a">>)]),
   Obj([state_name |-> Num(7), label |-> Str(<<"b">>)])}
OtherItems == {Num(7), Null, Arr(<<Str(<<"b">>)>>)}
StateArrays == {Arr(q) : q \in StringsOver(StateItems, MaxStates)}
StateBodies ==
  {Undefined, Null, Str(<<"g", "o", "a">>)} \cup StateArrays
  \cup {Arr(<<i>>) : i \in OtherItems}
  \cup {Obj([data |-> Arr(<<i>>)]) : i \in StateItems}
  \cup {Obj([data |-> Arr(<<i>>), states |-> j]) :
          i \in StateItems, j \in StateItems \cup OtherItems}
GetStatesAnswers ==
  {FetchAnswer(t, NoStatus, Undefined) : t \in {"error", "other"}}
  \cup {FetchAnswer("none", OkStatus, d) : d \in StateBodies}
  \cup {FetchAnswer("none", st, d) :
          st \in {404, 500}, d \in {Undefined, Arr(<<Str(<<"g", "o", "a">>)>>)}}

\* getStates(signal) from the call to its settling
GetStatesCall(answer) ==
  /\ ApiIdle
  /\ lastApiCall' = [fn |-> "getStates", answer |-> answer, result |-> getStates(answer)]
  /\ request' = FetchRequest("/getstates", Undefined, activeAuthToken)
  /\ ApiFrame

\* longest error message built from single characters
MaxMessageLen == 3

\* what a catch block can hand to mapAuthError
ErrorMessages ==
  StringsOver({"a", " ", "SOH"}, MaxMessageLen)
  \cup {ErrorWord, <<"SOH">> \o ErrorWord \o <<" ">>,
        <<"N", "e", "t", "w", "o", "r", "k">>,
        <<"a", " ", "n", "e", "t", "SOH", "w", "o", "r", "k", "TAB">>,
        <<"n", "e", "t", " ", "w", "o", "r", "k">>}
ErrorValues ==
  {Undefined, Null, Num(0), Num(7), Bool(FALSE), Bool(TRUE), Arr(<<>>),
   Obj([code |-> Num(7)]), Obj([message |-> Num(7)])}
  \cup {Str(m) : m \in ErrorMessages}
  \cup {ErrorInstance(m) : m \in ErrorMessages}
  \cup {Obj([message |-> Str(m)]) : m \in ErrorMessages}
FallbackMessages == {<<"f">>, <<"f", " ", "f">>}

\* mapAuthError(error, fallbackMessage)
MapAuthErrorCall(error, fallbackMessage) ==
  /\ ApiIdle
  /\ lastApiCall' = [fn |-> "mapAuthError", error |-> error,
                     fallbackMessage |-> fallbackMessage,
                     result |-> mapAuthErrorOfValue(error, fallbackMessage, isDevelopment)]
  /\ request' = NoRequest
  /\ ApiFrame

\* longest string handed to the three sanitizers
MaxSanitizeLen == 3

SanitizerInputs == StringsOver({"a", " ", "NBSP", "TAB", "SOH"}, MaxSanitizeLen)

\* storage.ts sanitize, auth.ts sanitizeString and errorHandler.ts
\* sanitizeMessage applied to one string, with saveAuthSession and
\* setAuthTokenHeader applied to it as a token
SanitizeCall(value) ==
  /\ ApiIdle
  /\ lastApiCall' = [fn |-> "sanitize", value |-> value,
                     storage |-> sanitize(value),
                     auth |-> sanitizeString(value),
                     handler |-> sanitizeMessage(value),
                     saved |-> saveAuthSession(NoCredentials,
                                               [BaseSession EXCEPT !.token = value],
                                               "stored"),
                     active |-> setAuthTokenHeader(Str(value)).activeAuthToken]
  /\ request' = NoRequest
  /\ ApiFrame

ApiNext ==
  \/ ApiIdle /\ \E p \in ApiLoginPayloads : \E a \in LoginAnswers : LoginCall(p, a)
  \/ ApiIdle /\ \E p \in ApiRegisterPayloads : \E a \in RegisterAnswers : RegisterCall(p, a)
  \/ \E a \in VerifyAnswers : VerifySessionCall(a)
  \/ \E a \in GetStatesAnswers : GetStatesCall(a)
  \/ \E e \in ErrorValues : \E m \in FallbackMessages : MapAuthErrorCall(e, m)
  \/ \E x \in SanitizerInputs : SanitizeCall(x)

ApiSpec == Init /\ [][ApiNext]_vars

----------------------------------------------------------------------------
(* Properties *)

\* what the keychain entry holds, read without sanitization
StoredField(kc, key) == IF kc.t = "json" THEN Prop(kc.v, key) ELSE Undefined

SaveOps == {"saveAuthSession", "saveAuthToken"}
TokenArgument(call) ==
  IF call.op = "saveAuthSession" THEN call.session.token ELSE call.token

\* C1: a payload written by saveAuthSession (directly or through
\* saveAuthToken) has a token that is a non-empty string without control
\* characters; when the token is empty after sanitization the call throws
\* and the keychain entry is unchanged.
C1_StoredTokenClean ==
  lastStoreOp.op \in SaveOps =>
    /\ ~lastStoreOp.threw =>
         /\ IsString(StoredField(keychain, "token"))
         /\ StoredField(keychain, "token").v # <<>>
         /\ ~HasControlChar(StoredField(keychain, "token").v)
    /\ sanitize(TokenArgument(lastStoreOp)) = <<>> =>
         lastStoreOp.threw /\ lastStoreOp.unchanged

\* a token with a control character was passed and the session was written
C1_Witness ==
  /\ lastStoreOp.op \in SaveOps
  /\ ~lastStoreOp.threw
  /\ HasControlChar(TokenArgument(lastStoreOp))

\* the session is destroyed: nothing readable is stored and no token is active
SessionDestroyed(kc, active) == getAuthSession(kc, "ok") = NoSession /\ active = Null

\* C2: whenever verifySession fails (in hydration, after a login, after the
\* auto-login of a registration) the stored session is destroyed and the
\* active auth token is removed, once the handling of the failure is over.
C2_FailedVerificationDestroysSession ==
  [][/\ (settled'.by \in Flows /\ ~settled'.resolved)
          => SessionDestroyed(keychain', activeAuthToken')
     /\ (hydrate.pc = "clear" /\ hydrate'.pc = "done")
          => SessionDestroyed(keychain', activeAuthToken')]_vars

\* C3: the first screen shown after hydration is DevPlayground when a stored
\* session with a token was verified, and Login in every other case.
C3_FirstScreen ==
  ~isHydrating =>
    firstScreen = IF hydrate.verified = "ok" THEN "DevPlayground" ELSE "Login"

\* C4: when handleLogout completes, on every path, the store holds no
\* session, the active auth token is null and the stack is the single
\* route Login.
C4_LogoutDestroysSession ==
  [][(logoutPc = "clearing" /\ logoutPc' = "idle")
       => /\ SessionDestroyed(keychain', activeAuthToken')
          /\ navStack' = <<"Login">>]_vars

\* the step in which saveAuthSession resolved in the submission of screen f
SavedStep(f) == sub[f].pc = "save" /\ sub'[f].pc = "verify"

\* C5 as stated: after a login submission in which login() returned a token
\* and saveAuthSession succeeded, the store holds that token with the
\* trimmed submitted username, and the active token is the stored token.
C5_StoredTrimmedUsername ==
  [][SavedStep("login")
       => /\ StoredField(keychain', "token") = Str(sub["login"].session.token)
          /\ StoredField(keychain', "username") = Str(sub["login"].username)
          /\ activeAuthToken' = StoredField(keychain', "token")]_vars

\* C5 amended: the stored username is the submitted username sanitized
\* (control characters removed, then trimmed).
C5_StoredSanitizedUsername ==
  [][SavedStep("login")
       => /\ StoredField(keychain', "token") = Str(sub["login"].session.token)
          /\ StoredField(keychain', "username") = Str(sanitize(sub["login"].username))
          /\ activeAuthToken' = StoredField(keychain', "token")]_vars

\* a login with a control character in the username has been saved
C5_Witness ==
  /\ sub["login"].pc = "verify"
  /\ HasControlChar(sub["login"].username)
  /\ StoredField(keychain, "username") = Str(sanitize(sub["login"].username))

\* the store holds a readable session of the user, and a token is active
SessionCreatedFor(kc, active, username) ==
  /\ getAuthSession(kc, "ok") # NoSession
  /\ getAuthSession(kc, "ok").username = sanitize(username)
  /\ Truthy(active)

C7_HeaderPropagation ==
  request # NoRequest =>
    request.authorization =
      IF activeAuthToken # Null /\ activeAuthToken.v # <<>>
      THEN Str(<<"Bearer ">> \o activeAuthToken.v)
      ELSE Undefined

\* a login request (axios) leaves while a token is active
C7_Witness ==
  /\ request # NoRequest
  /\ request.endpoint = "/login"
  /\ request.authorization # Undefined

C9_RequestBodiesClean ==
  (request # NoRequest /\ request.endpoint \in {"/login", "/register"})
    => StringsClean(request.body)

\* a login request whose username had a control character has left
C9_Witness ==
  /\ request # NoRequest
  /\ request.endpoint = "/login"
  /\ request.body.v.username = Str(sanitizeString(U_control))

\* C10: every string written to the keychain by saveAuthSession is free of
\* control characters: token, username and the strings of the user profile.
C10_StoredStringsClean ==
  (lastStoreOp.op \in SaveOps /\ ~lastStoreOp.threw)
    => StringsClean(keychain.v)

\* the call of login() or register() completed last rejected
Rejected(fn) == lastApiCall.fn = fn /\ ~lastApiCall.result.ok

\* the user-safe texts of auth.ts
SafeMessages ==
  {DEFAULT_ERROR_MESSAGE, LOGIN_VALIDATION_MESSAGE, REGISTER_VALIDATION_MESSAGE,
   INVALID_CREDENTIALS_MESSAGE, ACCOUNT_EXISTS_MESSAGE, VERIFY_DETAILS_MESSAGE,
   SERVICE_UNAVAILABLE_MESSAGE}

\* C11: in a non-development build every error with which login() or
\* register() rejects carries one of the fixed user-safe messages, and
\* nothing else (no field detail, no text of an underlying exception).
C11_RejectionsAreUserSafe ==
  (~isDevelopment /\ (Rejected("login") \/ Rejected("register")))
    => lastApiCall.result.error \in {Err(m) : m \in SafeMessages}

\* the message the claim gives for a status the server answers a login with
StatusMessage(status) ==
  IF status \in {400, 401} THEN INVALID_CREDENTIALS_MESSAGE
  ELSE IF status = 409 THEN ACCOUNT_EXISTS_MESSAGE
  ELSE SERVICE_UNAVAILABLE_MESSAGE

\* C12: a login answered with HTTP 400 or 401 rejects with 'Invalid
\* credentials...', with 409 with 'An account ... already exists.', with 500
\* or above with 'The service is currently unavailable...', in development
\* and non-development builds alike.
C12_LoginStatusMessages ==
  (lastApiCall.fn = "login" /\ lastApiCall.result.sent
     /\ lastApiCall.answer.status \in ErrorStatuses)
    => /\ ~lastApiCall.result.ok
       /\ lastApiCall.result.error = Err(StatusMessage(lastApiCall.answer.status))

\* a required field of a payload is not a string or is empty once sanitized
MissingField(payload, f) ==
  ~IsString(Prop(payload, f)) \/ sanitizeString(Prop(payload, f).v) = <<>>

\* a '+' anywhere but in the first position
PlusNotFirst(s) == \E i \in 2..Len(s) : s[i] = "+"

\* digits of a phone number
IsSevenDigit(c) == c \in Digits
DigitCount(s) == Len(SelectSeq(s, IsSevenDigit))

\* the register payloads the claim says are rejected before transport
InvalidRegisterPayload(payload) ==
  \/ \E i \in 1..Len(RegisterFields) : MissingField(payload, RegisterFields[i])
  \/ DigitCount(Prop(payload, "phoneNumber").v) < PhoneMinDigits
  \/ DigitCount(Prop(payload, "phoneNumber").v) > PhoneMaxDigits
  \/ PlusNotFirst(keepPlusAndDigits(Prop(payload, "phoneNumber").v))
  \/ ~matchesEmailPattern(toLowerCase(sanitizeString(Prop(payload, "email").v)))
  \/ sanitizeString(Prop(payload, "role").v) \notin Roles

InvalidLoginPayload(payload) ==
  MissingField(payload, "username") \/ MissingField(payload, "password")

\* C17: register() and login() reject, and issue no request, for every
\* payload that fails validation (a missing or empty required field, a phone
\* number with fewer than 7 or more than 15 digits or with a '+' anywhere but
\* first, an email that does not match, a role other than student/college).
C17_ValidationPrecedesTransport ==
  /\ (lastApiCall.fn = "register" /\ InvalidRegisterPayload(lastApiCall.payload))
       => ~lastApiCall.result.ok /\ ~lastApiCall.result.sent /\ request = NoRequest
  /\ (lastApiCall.fn = "login" /\ InvalidLoginPayload(lastApiCall.payload))
       => ~lastApiCall.result.ok /\ ~lastApiCall.result.sent /\ request = NoRequest

\* a non-empty string free of control characters
ValidToken(x) == IsString(x) /\ x.v # <<>> /\ ~HasControlChar(x.v)

\* what is left of the token of a response body once it is sanitized
BodyToken(data) ==
  IF IsString(Prop(data, "token")) THEN Str(sanitizeString(Prop(data, "token").v))
  ELSE Undefined

\* C18: every AuthResponse login() resolves with has a token that is a
\* non-empty string free of control characters; a response body without such
\* a token makes login() reject.
C18_LoginTokenValid ==
  lastApiCall.fn = "login" =>
    /\ lastApiCall.result.ok => ValidToken(lastApiCall.result.v.token)
    /\ (lastApiCall.result.sent /\ ~ValidToken(BodyToken(lastApiCall.answer.data)))
         => ~lastApiCall.result.ok

\* C19: whatever the keychain entry holds, getAuthSession returns null or a
\* session whose role is student or college and whose token is a non-empty
\* string free of control characters (it never throws).
C19_ReadSessionValid ==
  lastStoreOp.op = "getAuthSession" =>
    \/ lastStoreOp.result = NoSession
    \/ /\ lastStoreOp.result.role \in Roles
       /\ ValidToken(Str(lastStoreOp.result.token))

\* C20: verifySession resolves, with the parsed body or null when the body
\* is not JSON, exactly when the response status is ok; on 401 it rejects
\* with 'Session expired. Please sign in again.' and status 401, on any
\* other non-ok status with 'Unable to verify session.' and the status;
\* whatever is thrown underneath, it rejects with an Error instance.
C20_VerifySessionOutcome ==
  lastApiCall.fn = "verifySession" =>
    LET a == lastApiCall.answer
        r == lastApiCall.result
        responded == a.thrown = "none"
    IN
    /\ r.ok <=> (responded /\ a.status >= 200 /\ a.status < 300)
    /\ r.ok => r.v = IF a.data = Undefined THEN Null ELSE a.data
    /\ ~r.ok => r.error.instance = "Error"
    /\ (responded /\ a.status = 401)
         => ~r.ok /\ r.error.text = SESSION_EXPIRED_MESSAGE /\ r.error.status = 401
    /\ (responded /\ a.status # 401 /\ ~(a.status >= 200 /\ a.status < 300))
         => ~r.ok /\ r.error.text = UNABLE_TO_VERIFY_MESSAGE /\ r.error.status = a.status

\* a verification answered with 401 was rejected
C20_Witness ==
  /\ lastApiCall.fn = "verifySession"
  /\ lastApiCall.answer.thrown = "none"
  /\ lastApiCall.answer.status = 401
  /\ ~lastApiCall.result.ok

\* the number of names in FALLBACK_STATE_NAMES
FallbackCount == 36

GetStatesDone == lastApiCall.fn = "getStates"

\* the request threw or was aborted, the response is not ok, its body is not
\* JSON, or no valid state name comes out of it
FallbackCase(answer) ==
  \/ answer.thrown # "none"
  \/ answer.status # OkStatus
  \/ answer.data = Undefined
  \/ collectStates(answer.data) = <<>>

AndhraPradeshLabel ==
  <<"A", "n", "d", "h", "r", "a", " ", "P", "r", "a", "d", "e", "s", "h">>

\* C13: getStates never rejects; when the request throws or is aborted, the
\* response is not ok, the body is not JSON or yields no valid state name, it
\* resolves with the static fallback list (36 entries, value the lower-case
\* fallback name, label its title case); the list is never empty.
C13_GetStatesFallback ==
  GetStatesDone =>
    LET answer == lastApiCall.answer
        result == lastApiCall.result
    IN /\ result.ok
       /\ Len(result.v) > 0
       /\ FallbackCase(answer) =>
            /\ Len(result.v) = FallbackCount
            /\ \A i \in 1..Len(result.v) :
                 /\ result.v[i].value = FALLBACK_STATE_NAMES[i]
                 /\ result.v[i].value = toLowerCase(result.v[i].value)
                 /\ result.v[i].label = toTitleCase(result.v[i].value)
            /\ result.v[1].label = AndhraPradeshLabel

\* an ok response with a JSON array of entries, none of them a valid name
C13_Witness ==
  /\ GetStatesDone
  /\ lastApiCall.answer.thrown = "none"
  /\ lastApiCall.answer.status = OkStatus
  /\ lastApiCall.answer.data.t = "array"
  /\ Len(lastApiCall.answer.data.v) >= 2
  /\ collectStates(lastApiCall.answer.data) = <<>>
  /\ Len(lastApiCall.result.v) = FallbackCount

OkResponse(answer) == answer.thrown = "none" /\ answer.status = OkStatus

\* the options are normalized, distinct and ordered by label
NormalizedOptions(options) ==
  /\ \A i \in 1..Len(options) :
       /\ options[i].value # <<>>
       /\ options[i].value = toLowerCase(options[i].value)
       /\ options[i].value = trim(options[i].value)
       /\ \A k \in 1..Len(options[i].value) : options[i].value[k] \notin ControlChars
       /\ options[i].label = toTitleCase(options[i].value)
  /\ \A i, j \in 1..Len(options) : i # j => options[i].value # options[j].value
  /\ \A i, j \in 1..Len(options) : i < j => ~ComesBefore(options[j].label, options[i].label)

\* C14 as stated: for every ok response each returned option has a non-empty,
\* lower-case, trimmed, control-free value and the title case of it as label, no
\* two options share a value, and the options are ordered by label.
C14_OkResponseNormalized ==
  (GetStatesDone /\ OkResponse(lastApiCall.answer)) =>
    NormalizedOptions(lastApiCall.result.v)

\* C14 amended: the same for every ok response whose body yields at least one
\* valid state name (otherwise the fallback list is returned in its own order).
C14_CollectedStatesNormalized ==
  (GetStatesDone /\ OkResponse(lastApiCall.answer) /\ ~FallbackCase(lastApiCall.answer)) =>
    NormalizedOptions(lastApiCall.result.v)

\* an ok response with three entries that come out as two options, reordered
C14_Witness ==
  /\ GetStatesDone
  /\ OkResponse(lastApiCall.answer)
  /\ lastApiCall.answer.data.t = "array"
  /\ Len(lastApiCall.answer.data.v) = 3
  /\ Len(lastApiCall.result.v) = 2
  /\ lastApiCall.result.v # collectStates(lastApiCall.answer.data)

\* a step in which the stack is reset to DevPlayground
EntersDevPlayground == Top(navStack') = "DevPlayground" /\ Top(navStack) # "DevPlayground"

\* a step in which login() or saveAuthSession of the submission of f fails
SubmissionFails(f) == sub[f].pc \in {"login", "save"} /\ sub'[f].pc = "idle"

\* the order of a submission that ends in DevPlayground: login() returned a
\* non-empty token before saveAuthSession is called; saveAuthSession stored
\* the session and setAuthTokenHeader made its token the active one before
\* verifySession is called; the reset follows verifySession on a mounted screen
NavigationOrder ==
  /\ \A f \in Flows :
       (sub[f].pc # "save" /\ sub'[f].pc = "save")
         => sub[f].pc = "login" /\ sub'[f].session.token # <<>>
  /\ \A f \in Flows :
       (sub[f].pc # "verify" /\ sub'[f].pc = "verify")
         => /\ sub[f].pc = "save"
            /\ StoredField(keychain', "token") = Str(sub[f].session.token)
            /\ activeAuthToken' = Str(sub[f].session.token)
  /\ EntersDevPlayground
       => \E f \in Flows : sub[f].pc = "verify" /\ sub[f].mounted /\ sub'[f].pc = "idle"

\* C15 as stated: Login and Register reset to DevPlayground only after
\* login() returned a non-empty token, saveAuthSession completed and
\* setAuthTokenHeader was called, in that order; when login() or
\* saveAuthSession fails there is no navigation, the active token is
\* unchanged and an error message is shown.
C15_NavigateOnlyOnSuccess ==
  [][/\ NavigationOrder
     /\ \A f \in Flows :
          SubmissionFails(f)
            => /\ navStack' = navStack
               /\ activeAuthToken' = activeAuthToken
               /\ apiError'[f] # NoMessage]_vars

\* C15 amended: the same, the error message being shown when the screen that
\* submitted is still mounted (a Register screen left by the back gesture
\* during its submission shows nothing).
C15_NavigateOnlyOnSuccessMounted ==
  [][/\ NavigationOrder
     /\ \A f \in Flows :
          SubmissionFails(f)
            => /\ navStack' = navStack
               /\ activeAuthToken' = activeAuthToken
               /\ sub[f].mounted => apiError'[f] # NoMessage
               /\ ~sub[f].mounted => apiError'[f] = apiError[f]]_vars

\* saveAuthSession has failed on the mounted Login screen, which shows a
\* message, has not navigated and has no active token
C15_Witness ==
  /\ Top(navStack) = "Login"
  /\ sub["login"].pc = "idle"
  /\ apiError["login"] = mapAuthError(Err(PersistFailedMessage), LOGIN_FALLBACK, isDevelopment)
  /\ activeAuthToken = Null

\* the submissions whose login or register request has not settled
PendingRequests == {f \in Flows : sub[f].pc \in {"register", "login"}}

\* C16: at most one form submission is in flight, the submit button being
\* disabled while one is pending, so that no second login or register
\* request is started before the first one settles.
C16_SingleInFlightSubmission == Cardinality(PendingRequests) <= 1

\* the message mapAuthError reads from its argument, when there is one
MessageOf(error) ==
  IF IsString(error) THEN error
  ELSE IF error.t = "error" THEN Str(error.message)
  ELSE Prop(error, "message")

\* C21: for a non-empty fallback free of control characters the result of
\* mapAuthError is never empty and holds no control character, whatever the
\* argument; an empty or control-character-only message yields the fallback.
C21_MapAuthErrorUserSafe ==
  lastApiCall.fn = "mapAuthError" =>
    /\ lastApiCall.result # <<>>
    /\ ~HasControlChar(lastApiCall.result)
    /\ (IsString(MessageOf(lastApiCall.error))
        /\ replaceControlChars(MessageOf(lastApiCall.error).v) = <<>>)
         => lastApiCall.result = lastApiCall.fallbackMessage

\* an Error whose message holds a control character has been mapped to its
\* cleaned message
C21_Witness ==
  /\ lastApiCall.fn = "mapAuthError"
  /\ lastApiCall.error.t = "error"
  /\ HasControlChar(lastApiCall.error.message)
  /\ lastApiCall.result # lastApiCall.fallbackMessage
  /\ lastApiCall.result # CheckConnectionText

\* C22: when App stays mounted and the calls hydrate() awaits settle,
\* isHydrating eventually becomes false and the navigator is rendered, on
\* every path; before that no screen is shown and no submission has started.
C22_HydrationTerminates ==
  /\ ([]hydrate.isActive) => <>(~isHydrating /\ navStack # <<>>)
  /\ [](isHydrating => (navStack = <<>> /\ \A f \in Flows : sub[f].pc = "idle"))

\* hydration has finished on the path of a failed verification
C22_Witness ==
  /\ ~isHydrating
  /\ hydrate.pc = "done"
  /\ hydrate.verified = "failed"
  /\ navStack = <<"Login">>

\* the step in which hydrate() reaches the end of its finally block
HydrationFinishes == hydrate.pc # "done" /\ hydrate'.pc = "done"

\* C23: when hydration finishes the active auth token is non-null exactly
\* when the route chosen by hydration is DevPlayground; on every path that
\* chooses Login, setAuthTokenHeader(null) was the last call (no active
\* token, no default Authorization header).
C23_TokenMatchesRoute ==
  [][HydrationFinishes
       => /\ (activeAuthToken' # Null) <=> (hydrate'.nextRoute = "DevPlayground")
          /\ hydrate.isActive => initialRoute' = hydrate'.nextRoute
          /\ hydrate'.nextRoute = "Login"
               => activeAuthToken' = Null /\ defaultsAuthorization' = Undefined
          /\ hydrate'.nextRoute = "DevPlayground"
               => Truthy(activeAuthToken')]_vars

\* hydration has chosen Login after a failed verification of a stored token
C23_Witness ==
  /\ hydrate.pc = "done"
  /\ hydrate.verified = "failed"
  /\ hydrate.nextRoute = "Login"
  /\ activeAuthToken = Null
  /\ sub["login"].pc = "idle" /\ sub["register"].pc = "idle"
  /\ navStack = <<"Login">>
  /\ apiError["login"] = NoMessage

\* a step that writes a payload to the keychain entry
StoreWritten == keychain' # keychain /\ keychain' # NoCredentials

\* C24: a session is written to the secure store only by a submission in
\* which login() has returned a non-empty token; hydration, a failed login,
\* a failed registration and an auto-login that fails or returns no token
\* write nothing.
C24_WriteOnlyAfterLogin ==
  [][/\ StoreWritten
          => \E f \in Flows :
               /\ SavedStep(f)
               /\ sub[f].session.token # <<>>
               /\ StoredField(keychain', "token") = Str(sanitize(sub[f].session.token))
     /\ (hydrate.pc # hydrate'.pc) => ~StoreWritten
     /\ \A f \in Flows : (sub[f].pc \in {"register", "login"} /\ sub'[f].pc # sub[f].pc)
                           => keychain' = keychain]_vars

\* the Login screen has written the session of a login that returned a token
C24_Witness ==
  /\ sub["login"].pc = "verify"
  /\ sub["login"].session.token # <<>>
  /\ StoredField(keychain, "token") = Str(sub["login"].session.token)
  /\ hydrate.verified = "none"

\* C25: for every password without control character, the password in the
\* body of the POST /login request is exactly the password login() was
\* called with.
C25_PasswordTransmittedUnchanged ==
  (/\ lastApiCall.fn = "login"
   /\ lastApiCall.result.sent
   /\ IsString(Prop(lastApiCall.payload, "password"))
   /\ ~HasControlChar(Prop(lastApiCall.payload, "password").v))
    => Prop(request.body, "password") = Prop(lastApiCall.payload, "password")

\* a step of the submission of f taken after its screen was unmounted
OrphanStep(f) == sub[f].pc # "idle" /\ ~sub[f].mounted /\ sub'[f].pc # sub[f].pc

\* C26: a submission whose screen unmounted before it settled performs no
\* navigation reset and no error state update, and still persists the
\* session and sets the auth header when its login succeeds; a hydrate()
\* whose App unmounted calls neither setInitialRoute nor setIsHydrating.
C26_UnmountDuringOperation ==
  [][/\ \A f \in Flows :
          OrphanStep(f)
            => /\ navStack' = navStack
               /\ apiError' = apiError
               /\ SavedStep(f)
                    => /\ StoredField(keychain', "token") = Str(sub[f].session.token)
                       /\ activeAuthToken' = Str(sub[f].session.token)
                       /\ defaultsAuthorization' = Bearer(sub[f].session.token)
     /\ (~hydrate.isActive /\ hydrate'.pc # hydrate.pc)
          => /\ initialRoute' = initialRoute
             /\ isHydrating' = isHydrating
             /\ navStack' = navStack]_vars

\* the auto-login of a Register screen left during its submission has been
\* saved and made active, with the Login screen on top
C26_Witness ==
  /\ sub["register"].pc = "verify"
  /\ ~sub["register"].mounted
  /\ navStack = <<"Login">>
  /\ StoredField(keychain, "token") = Str(sub["register"].session.token)
  /\ activeAuthToken = Str(sub["register"].session.token)

\* a step in which the Register screen is removed from the stack
RegisterUnmounts == "Register" \in Routes(navStack) /\ "Register" \notin Routes(navStack')

\* C27: on the Register screen stateFetchError is always the empty string,
\* so 'Reload States' is never displayed; a getStates request is issued only
\* when the screen mounts, never while one of the same screen is in flight;
\* a request in flight when the screen unmounts is aborted.
C27_StatesLoadedOnce ==
  /\ [](stateFetchError = NoMessage)
  /\ [][/\ (request'.endpoint = "/getstates")
             => /\ ~statesLoading
                /\ "Register" \notin Routes(navStack)
                /\ "Register" \in Routes(navStack')
        /\ (RegisterUnmounts /\ statesLoading) => statesController' = "aborted"
        /\ (RegisterUnmounts /\ ~statesLoading) => statesController' = "none"]_vars

\* the Register screen was left while its getStates request was in flight
C27_Witness ==
  /\ statesController = "aborted"
  /\ navStack = <<"Login">>
  /\ ~statesLoading

\* the session the store holds, as getAuthSession reads it
StoredSession(kc) == getAuthSession(kc, "ok")

\* C28: saveAuthToken(token) changes only the token of the stored session:
\* an existing session keeps its role, username and user profile; without
\* one the session is created with role 'student', username '' and no
\* profile; a token that is empty after sanitization makes the call throw
\* and leaves the stored session unchanged.
C28_SaveAuthTokenFrame ==
  [][lastStoreOp'.op = "saveAuthToken"
       => LET before == StoredSession(keychain)
              after == StoredSession(keychain')
          IN IF sanitize(lastStoreOp'.token) = <<>>
             THEN lastStoreOp'.threw /\ keychain' = keychain
             ELSE /\ lastStoreOp'.threw => keychain' = keychain
                  /\ ~lastStoreOp'.threw
                       => /\ after # NoSession
                          /\ after.token = sanitize(lastStoreOp'.token)
                          /\ IF before # NoSession
                             THEN /\ after.role = before.role
                                  /\ after.username = before.username
                                  /\ NullishToUndefined(after.user)
                                       = NullishToUndefined(before.user)
                             ELSE /\ after.role = StudentRole
                                  /\ after.username = <<>>
                                  /\ after.user = Undefined]_vars

\* C29: sanitize, sanitizeString and sanitizeMessage give the same result on
\* every string and applying them twice changes nothing; so the token
\* saveAuthSession stores is the token setAuthTokenHeader makes active.
C29_SanitizersAgree ==
  lastApiCall.fn = "sanitize" =>
    /\ lastApiCall.storage = lastApiCall.auth
    /\ lastApiCall.auth = lastApiCall.handler
    /\ sanitize(lastApiCall.storage) = lastApiCall.storage
    /\ sanitizeString(lastApiCall.auth) = lastApiCall.auth
    /\ sanitizeMessage(lastApiCall.handler) = lastApiCall.handler
    /\ ~lastApiCall.saved.threw
         => StoredField(lastApiCall.saved.keychain, "token") = lastApiCall.active

\* a token with white space around a control character has been stored
C29_Witness ==
  /\ lastApiCall.fn = "sanitize"
  /\ HasControlChar(lastApiCall.value)
  /\ lastApiCall.value[1] \in WhiteSpace
  /\ ~lastApiCall.saved.threw
  /\ lastApiCall.storage # replaceControlChars(lastApiCall.value)
  /\ lastApiCall.storage # trim(lastApiCall.value)


====
